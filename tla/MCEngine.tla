------------------------------ MODULE MCEngine ------------------------------
(***************************************************************************)
(* The calculations of the program and the small machines around them, in  *)
(* one run: a behaviour is one of a message heard, a file read, the        *)
(* advisor's page, the totals of the dashboard, the gateway's door, a      *)
(* forwarder's proof or what reviews teach, and the variables of the       *)
(* others stay as they begin.                                              *)
(***************************************************************************)
EXTENDS ImportText, Advisor, Dashboard, Gate, MailAuth, Rules

VARIABLE part

N(groups, seps, worth) == [groups |-> groups, seps |-> seps, worth |-> worth]

\* 12.345, 12,345.60, 12.345,6, 1.234.567, 1.234.50, 2.000, 2.050,10, 7, 7,25
Numbers == {
  N(<<<<1, 2>>, <<3, 4, 5>>>>, <<".">>, 1234500),
  N(<<<<1, 2>>, <<3, 4, 5>>, <<6, 0>>>>, <<",", ".">>, 1234560),
  N(<<<<1, 2>>, <<3, 4, 5>>, <<6>>>>, <<".", ",">>, 1234560),
  N(<<<<1>>, <<2, 3, 4>>, <<5, 6, 7>>>>, <<".", ".">>, 123456700),
  N(<<<<1>>, <<2, 3, 4>>, <<5, 0>>>>, <<".", ".">>, 123450),
  N(<<<<2>>, <<0, 0, 0>>>>, <<".">>, 200000),
  N(<<<<2>>, <<0, 5, 0>>, <<1, 0>>>>, <<".", ",">>, 205010),
  N(<<<<7>>>>, <<>>, 700),
  N(<<<<7>>, <<2, 5>>>>, <<",">>, 725)}

Marks == {[marked |-> FALSE, sign |-> FALSE], [marked |-> TRUE, sign |-> FALSE], [marked |-> TRUE, sign |-> TRUE]}
Found == {[amount |-> n, marked |-> k.marked, sign |-> k.sign, worded |-> w] :
            n \in Numbers, k \in Marks, w \in BOOLEAN}

Words == [single : 0..1, phrase : 0..1]
Silent == [single |-> 0, phrase |-> 0]
Spent == [single |-> 1, phrase |-> 0]

\* One number with any words around it, and two numbers of one payment.
MCTexts ==
  {[numbers |-> <<n>>, names |-> c, out |-> o, in |-> i, noise |-> z] :
     n \in Found, c \in {"none", "COP"}, o \in Words, i \in Words, z \in {FALSE}}
  \cup {[numbers |-> <<n>>, names |-> "USD", out |-> Spent, in |-> Silent, noise |-> TRUE] : n \in Found}
  \cup {[numbers |-> <<m, n>>, names |-> c, out |-> Spent, in |-> Silent, noise |-> FALSE] :
     m \in Found, n \in Found, c \in {"none", "COP"}}

-----------------------------------------------------------------------------
\* Cells with nothing special, with delimiters, quotes, blanks, and the end of a line.
CellTexts == {<<>>, <<"a">>, <<" ", "a", " ">>, <<"1", ",", "5">>, <<"1", ";", "2">>, <<"\"">>,
          <<"a", "\"", "a", "\"">>, <<"\"", ",">>, <<"a", "NL", "b">>, <<"TAB", "b">>}
Heads == {<<<<"Fecha">>, <<"Valor">>>>, <<<<"Valor">>, <<"Valor">>>>, <<<<"Fecha">>, <<>>>>,
          <<<<"Valor", "(2)">>, <<"Valor">>>>, <<<<"Valor", ",">>, <<"Fecha">>>>}

Exported(matrices) ==
  [matrix : matrices, delimiter : {",", ";"}, type : {"csv"}, ending : {<<"NL">>, <<"CR", "NL">>}]
  \cup [matrix : matrices, delimiter : {"TAB"}, type : {"tsv", "xlsx"}, ending : {<<"NL">>}]
MCSheets ==
  Exported({<<h, <<a, b>>>> : h \in Heads, a \in CellTexts, b \in CellTexts})
  \cup Exported({<<h, <<a, b>>, <<b, <<>>>>>> : h \in {<<<<"Fecha">>, <<"Valor">>>>}, a \in CellTexts, b \in CellTexts})

MCHints ==
  [date |-> {"fecha", "date"}, amount |-> {"monto", "amount"}, income |-> {"abono"},
   expense |-> {"cargo", "debito"}, kind |-> {"tipo"}, currency |-> {"moneda"}]

Cell1(n, minus) == <<[amount |-> n, minus |-> minus]>>
Dates == {[text |-> <<5, 2, 26>>, day |-> <<2026, 2, 5>>, monthFirst |-> FALSE],
          [text |-> <<29, 2, 2024>>, day |-> <<2024, 2, 29>>, monthFirst |-> FALSE],
          [text |-> <<2, 5, 2026>>, day |-> <<2026, 2, 5>>, monthFirst |-> TRUE],
          [text |-> <<2, 25, 99>>, day |-> <<1999, 2, 25>>, monthFirst |-> TRUE]}
Readable == {n \in Numbers : n.worth # 123450}

Told(cells, headers, kind, n, d) ==
  [headers |-> headers, cells |-> cells, kind |-> kind, worth |-> n.worth, date |-> d.day,
   monthFirst |-> d.monthFirst]

\* One column with a sign or a word, or two columns, one of which is empty or zero.
MCRows ==
  {Told([fecha |-> <<d.text>>, monto |-> Cell1(n, k = "expense"), tipo |-> <<>>, moneda |-> c],
        <<"fecha", "monto", "tipo", "moneda">>, "expense", n, d) :
     n \in Readable, d \in Dates, k \in {"expense", "none"}, c \in {<<>>, <<"COP">>}}
  \cup {Told([date |-> <<d.text>>, amount |-> Cell1(n, minus), tipo |-> <<k>>],
        <<"tipo", "date", "amount">>, k, n, d) :
     n \in Readable, d \in Dates, k \in {"income", "expense"}, minus \in BOOLEAN}
  \cup {Told([fecha |-> <<d.text>>, monto |-> Cell1(n, FALSE), abono |-> z, cargo |-> Cell1(n, minus)],
        <<"monto", "fecha", "abono", "cargo">>, "expense", n, d) :
     n \in Readable, d \in Dates, minus \in BOOLEAN, z \in {<<>>, Cell1(N(<<<<0>>>>, <<>>, 0), FALSE)}}

-----------------------------------------------------------------------------
Figures(currency, liquid, essentials, reserve) ==
  [currency |-> currency, liquid |-> liquid, income |-> 1, essentials |-> essentials,
   discretionary |-> 1, reserve |-> reserve, monthly |-> 2, months |-> 1]
MCSnapshots == {Figures("COP", 6, 2, 1), Figures("COP", 1, 3, 0), Figures("USD", 4, 1, 2)}
Goal(id, remaining, priority, date, currency, active) ==
  [id |-> id, remaining |-> remaining, priority |-> priority, date |-> date,
   currency |-> currency, active |-> active]
MCGoals == <<Goal("trip", 2, 1, 0, "COP", TRUE), Goal("car", 2, 1, 9, "COP", TRUE),
             Goal("home", 1, 2, 0, "COP", TRUE), Goal("old", 1, 3, 0, "COP", FALSE),
             Goal("fund", 2, 1, 0, "USD", TRUE)>>

-----------------------------------------------------------------------------
Row(key, sound, domain, system, recipient) ==
  [key |-> key, sound |-> sound, domain |-> domain, system |-> system, recipient |-> recipient]
GoogleRows == {Row(k, TRUE, "google.com", s, r) : k \in {"g1", "g2"}, s \in BOOLEAN, r \in BOOLEAN}
OtherRows == {Row("g1", FALSE, "google.com", TRUE, TRUE), Row("b", TRUE, "bank.com", TRUE, TRUE)}
MCLetters ==
  {[rows |-> <<r, s>>, chain |-> <<>>] : r \in GoogleRows \cup OtherRows, s \in GoogleRows \cup OtherRows}
  \cup {[rows |-> <<r, s, r>>, chain |-> <<c, d>>] :
          r \in GoogleRows, s \in OtherRows, c \in OtherRows \cup {Row("g2", TRUE, "google.com", FALSE, FALSE)},
          d \in OtherRows \cup {Row("g2", TRUE, "google.com", FALSE, FALSE)}}

Link(https, google, approves, refuses, fits) ==
  [https |-> https, google |-> google, approves |-> approves, refuses |-> refuses, fits |-> fits]
Approves == Link(TRUE, TRUE, TRUE, FALSE, TRUE)
MCLinks == {Approves, Link(TRUE, TRUE, TRUE, FALSE, FALSE), Link(TRUE, TRUE, TRUE, TRUE, TRUE),
            Link(TRUE, FALSE, TRUE, FALSE, TRUE), Link(FALSE, TRUE, TRUE, FALSE, TRUE)}
Part(type, attached, says, links) == [type |-> type, attached |-> attached, says |-> says, links |-> links]
Content(subject, code, parts) == [subject |-> subject, code |-> code, parts |-> parts]

\* One part with two links, or a part of each kind, some of them attached; and mails that
\* also tell how to cancel, or are about something else.
MCContents ==
  {Content({"forwarding"}, c, <<Part("html", FALSE, {"confirm"}, <<l, k>>)>>) :
     c \in BOOLEAN, l \in MCLinks, k \in {Approves}}
  \cup {Content({"forwarding"}, TRUE, <<Part("html", a, {"confirm"}, <<l>>), Part("plain", FALSE, {"confirm"}, <<k>>)>>) :
     a \in BOOLEAN, l \in MCLinks, k \in {Approves, Link(FALSE, TRUE, TRUE, FALSE, TRUE)}}
  \cup {Content(about, FALSE, <<Part("plain", FALSE, {"confirm", "cancel"}, <<Approves>>)>>) :
     about \in {{}, {"forwarding"}}}
  \cup {Content({"forwarding", "confirm"}, FALSE, <<>>)}

-----------------------------------------------------------------------------
\* One source; payments that are posted with any account, and with a learned one only.
Payment(merchant, confidence, moment) ==
  [source |-> "bank", merchant |-> merchant, kind |-> "expense", currency |-> "COP",
   confidence |-> confidence, time |-> moment, suggested |-> FALSE]
MCFacts == [cafe |-> Payment({}, 9600, 1), roma |-> Payment({"roma"}, 9350, 2),
            web |-> Payment({"roma", "web"}, 9350, 3)]
MCAccountCurrency == [main |-> "COP", trip |-> "COP"]
Symmetric == Permutations(Hands)

-----------------------------------------------------------------------------
engine == <<part, heard, sheet, advisor, dashboard, gate, mailAuth, learning>>

EngineInit ==
  /\ part \in {"message", "file", "advisor", "dashboard", "gate", "letter", "rules"}
  /\ AmountsInit /\ ImportTextInit /\ AdvisorInit /\ DashboardInit /\ GateInit /\ MailAuthInit /\ RulesInit
  /\ part # "rules" => state = [c \in Detected |-> "new"]
  /\ part # "letter" => letter = CHOOSE l \in Letters : TRUE

EngineNext ==
  \/ part = "message" /\ AmountsNext /\ UNCHANGED <<part, sheet, advisor, dashboard, gate, mailAuth, learning>>
  \/ part = "file" /\ ImportTextNext /\ UNCHANGED <<part, heard, advisor, dashboard, gate, mailAuth, learning>>
  \/ part = "advisor" /\ AdvisorNext /\ UNCHANGED <<part, heard, sheet, dashboard, gate, mailAuth, learning>>
  \/ part = "dashboard" /\ DashboardNext /\ UNCHANGED <<part, heard, sheet, advisor, gate, mailAuth, learning>>
  \/ part = "gate" /\ GateNext /\ UNCHANGED <<part, heard, sheet, advisor, dashboard, mailAuth, learning>>
  \/ part = "letter" /\ MailAuthNext /\ UNCHANGED <<part, heard, sheet, advisor, dashboard, gate, learning>>
  \/ part = "rules" /\ RulesNext /\ UNCHANGED <<part, heard, sheet, advisor, dashboard, gate, mailAuth>>

EngineSpec == EngineInit /\ [][EngineNext]_engine
=============================================================================
