------------------------------- MODULE MCApp --------------------------------
(***************************************************************************)
(* The parts of the application that keep state on the user's side, side   *)
(* by side: a behaviour is one of Phone, Import, Portfolio or Client, and  *)
(* the variables of the others stay where they begin.                      *)
(***************************************************************************)
EXTENDS Phone, Import, Portfolio, Client

CONSTANTS k1, k2, k3
VARIABLE part

MCFiles == {<<<<k1, k2>>, <<k2, k3>>>>, <<<<k1, k1>>>>, <<<<k2>>, <<k1>>>>}
MCCategoryOf == [k \in Keys |-> IF k = k1 THEN "none" ELSE "food"]

app == <<part, phone, importing, portfolio, client>>

AppInit ==
  /\ part \in {"phone", "import", "goals", "investment", "access", "store"}
  /\ PhoneInit /\ ImportInit /\ PortfolioInit /\ ClientInit
  /\ part # "import" => file = [a \in Attempts |-> <<<<k1, k1>>>>]
  /\ part \notin {"access", "store"} => session = Nobody /\ events = <<>>

InPhone(A) == part = "phone" /\ A /\ UNCHANGED <<part, importing, portfolio, client>>
InClient(p, A) == part = p /\ A /\ UNCHANGED <<part, phone, importing, portfolio>>

AppNext ==
  \/ InPhone(PhoneNext)
  \/ part = "import" /\ ImportNext /\ UNCHANGED <<part, phone, portfolio, client>>
  \/ part = "goals" /\ GoalNext /\ UNCHANGED <<part, phone, importing, client>>
  \/ part = "investment" /\ InvestmentNext /\ UNCHANGED <<part, phone, importing, client>>
  \/ InClient("access", AccessNext)
  \/ InClient("store", StoreNext)

AppSpec ==
  /\ AppInit /\ [][AppNext]_app
  /\ \A s \in Uploads : WF_app(InPhone(UploadStep(s)))
  /\ WF_app(InClient("access", AuthStep)) /\ WF_app(InClient("access", GateStep))

\* ScreensSettle, where the session is what runs.
AccessSettles == part = "access" => ScreensSettle
=============================================================================
