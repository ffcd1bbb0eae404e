-------------------------------- MODULE Card --------------------------------
(***************************************************************************)
(* The card of the email relay (EmailRelayCard) against                    *)
(* email-relay-settings: what is offered, what the calls under way do, and *)
(* what the page makes of answers that come in any order.  What forwarded  *)
(* mails do to aliases and sources is Relay's; here a source appears and   *)
(* is proven.                                                              *)
(*                                                                         *)
(* An alias stands for its full address and for its hint.                  *)
(***************************************************************************)
EXTENDS Integers, FiniteSets

CONSTANTS
  Calls,     \* calls under way at once
  MaxClicks,   \* bound: actions of the user
  MaxMails,  \* bound: sources that appear, numbered
  MaxTroubles \* bound: calls that fail and answers that are lost

ASSUME CardAssumption == MaxClicks \in Nat /\ MaxMails \in Nat /\ MaxTroubles \in Nat

VARIABLES
  card,    \* the state of the component
  calling,    \* of each call: its action, the source or verification it names, where it is,
           \* and what it read or was given
  relay,   \* the alias in use, 0 if none; its source, 0 if none, and the verification of it
  issued,  \* aliases issued, the first of them before the page was opened
  clicks, mails, troubles, \* for the bounds
  astray   \* history: two issues at once, or the answer of one was lost

relayCard == <<card, calling, relay, issued, clicks, mails, troubles, astray>>

Issues == {"generate", "rotate"}
NoRelay == [alias |-> 0, active |-> FALSE, source |-> 0, proven |-> FALSE, letter |-> 0]
NoCall == [act |-> "none", id |-> 0, at |-> "free", read |-> NoRelay]
NoCard == [view |-> NoRelay, address |-> 0, busy |-> FALSE]

\* an alias that was revoked is not found (service_get_email_relay_state)
StateName(r) == IF r.alias = 0 THEN "NOT_CONFIGURED" ELSE IF r.active THEN "ACTIVE" ELSE "VERIFICATION_PENDING"
Waits == \/ StateName(card.view) = "VERIFICATION_PENDING" \/ card.view.letter # 0
         \/ card.view.source # 0 /\ ~card.view.proven

Doing(c, act, place) == calling[c].act = act /\ calling[c].at = place
Moves(c, place) == calling' = [calling EXCEPT ![c].at = place]

-----------------------------------------------------------------------------
(* The page. *)

\* load, when the card appears, by the timer while it waits, and when the window gets focus
Refreshes(c) ==
  /\ calling[c].at = "free" /\ Waits
  /\ calling' = [calling EXCEPT ![c] = [NoCall EXCEPT !.act = "state", !.at = "sent"]]
  /\ UNCHANGED <<card, relay, issued, clicks, mails, troubles, astray>>

\* The buttons wait for one another, the links of a verification for nothing.
Offers ==
  LET v == card.view
      known == v.alias # 0 \/ card.address # 0
      buttons == (IF v.alias = 0 THEN {<<"generate", 0>>} ELSE {<<"rotate", 0>>, <<"revoke", 0>>})
                 \cup (IF known THEN {<<"select_provider", 0>>} ELSE {})
                 \cup (IF known /\ v.source # 0 THEN {<<"revoke_source", v.source>>} ELSE {})
                 \cup (IF known /\ v.source # 0 /\ ~v.proven THEN {<<"create_link_test", v.source>>} ELSE {})
      links == {"mark_verification_opened", "dismiss_verification"} \X ({v.letter} \ {0})
  IN links \cup IF card.busy THEN {} ELSE buttons

\* act
Acts(c, o) ==
  /\ calling[c].at = "free" /\ o \in Offers
  /\ clicks < MaxClicks /\ clicks' = clicks + 1
  /\ calling' = [calling EXCEPT ![c] = [NoCall EXCEPT !.act = o[1], !.id = o[2], !.at = "sent"]]
  /\ card' = [card EXCEPT !.busy = TRUE]
  /\ astray' = (astray \/ (o[1] \in Issues /\ \E d \in Calls : calling[d].act \in Issues))
  /\ UNCHANGED <<relay, issued, mails, troubles>>

\* mutant: what the server does not tell again is forgotten
KeepsNothing(read) == 0

\* the full address is told once
Keeps(read) == card.address

\* The answer of load; of the load that ends an action, too.
Loaded(c) ==
  /\ Doing(c, "state", "answered") \/ Doing(c, "reload", "answered")
  /\ card' = [view |-> calling[c].read, address |-> Keeps(calling[c].read),
              busy |-> card.busy /\ calling[c].act = "state"]
  /\ calling' = [calling EXCEPT ![c] = NoCall]
  /\ UNCHANGED <<relay, issued, clicks, mails, troubles, astray>>

\* The answer of generate and rotate is merged in; the verifications shown stay.
Issued(c) ==
  /\ calling[c].act \in Issues /\ calling[c].at = "answered"
  /\ card' = [view |-> [calling[c].read EXCEPT !.letter = card.view.letter],
              address |-> calling[c].read.alias, busy |-> FALSE]
  /\ calling' = [calling EXCEPT ![c] = NoCall]
  /\ UNCHANGED <<relay, issued, clicks, mails, troubles, astray>>

\* any other action is answered, and the state is loaded again
Acted(c) ==
  /\ calling[c].act \notin Issues \cup {"state", "reload"} /\ calling[c].at = "answered"
  /\ calling' = [calling EXCEPT ![c] = [NoCall EXCEPT !.act = "reload", !.at = "sent"]]
  /\ UNCHANGED <<card, relay, issued, clicks, mails, troubles, astray>>

\* the call of a refresh leaves the page alone, that of an action makes it ready again
Failed(c) ==
  /\ calling' = [calling EXCEPT ![c] = NoCall]
  /\ card' = [card EXCEPT !.busy = @ /\ calling[c].act = "state"]

-----------------------------------------------------------------------------
(* email-relay-settings. *)

\* service_create_or_rotate_email_relay_alias
IssueAlias(c) ==
  LET new == [NoRelay EXCEPT !.alias = issued + 1] IN
    /\ calling[c].act \in Issues /\ calling[c].at = "sent"
    /\ issued' = issued + 1 /\ relay' = new
    /\ calling' = [calling EXCEPT ![c].at = "answered", ![c].read = new]
    /\ UNCHANGED <<card, clicks, mails, troubles, astray>>

RevokesAll(c) ==
  /\ Doing(c, "revoke", "sent")
  /\ relay' = NoRelay /\ Moves(c, "answered")
  /\ UNCHANGED <<card, issued, clicks, mails, troubles, astray>>

\* with its verification; a source that is gone is not found
RevokesSource(c) ==
  /\ Doing(c, "revoke_source", "sent")
  /\ \/ /\ calling[c].id = relay.source /\ Moves(c, "answered")
        /\ relay' = [relay EXCEPT !.source = 0, !.proven = FALSE, !.letter = 0]
        /\ UNCHANGED card
     \/ calling[c].id # relay.source /\ Failed(c) /\ UNCHANGED relay
  /\ UNCHANGED <<issued, clicks, mails, troubles, astray>>

\* service_update_email_relay_forwarding_verification: opened it stays, dismissed it goes, and
\* one that is gone is not found
UpdatesVerification(c) ==
  /\ calling[c].act \in {"mark_verification_opened", "dismiss_verification"} /\ calling[c].at = "sent"
  /\ \/ /\ calling[c].id = relay.letter /\ Moves(c, "answered")
        /\ relay' = IF calling[c].act = "dismiss_verification" THEN [relay EXCEPT !.letter = 0] ELSE relay
        /\ UNCHANGED card
     \/ calling[c].id # relay.letter /\ Failed(c) /\ UNCHANGED relay
  /\ UNCHANGED <<issued, clicks, mails, troubles, astray>>

\* select_provider and create_link_test write what Relay models, if their alias or source is
\* in use
Prepares(c) ==
  /\ Doing(c, "select_provider", "sent") \/ Doing(c, "create_link_test", "sent")
  /\ IF (IF calling[c].act = "select_provider" THEN relay.alias # 0 ELSE calling[c].id = relay.source)
       THEN Moves(c, "answered") /\ UNCHANGED card ELSE Failed(c)
  /\ UNCHANGED <<relay, issued, clicks, mails, troubles, astray>>

\* the state is read by queries of their own for the alias, the sources and the verifications
ReadsAlias(c) ==
  /\ Doing(c, "state", "sent") \/ Doing(c, "reload", "sent")
  /\ calling' = [calling EXCEPT ![c].at = "half", ![c].read =
                [NoRelay EXCEPT !.alias = relay.alias, !.active = relay.active]]
  /\ UNCHANGED <<card, relay, issued, clicks, mails, troubles, astray>>
ReadsSources(c) ==
  /\ calling[c].at = "half"
  /\ calling' = [calling EXCEPT ![c].at = "answered", ![c].read =
                [relay EXCEPT !.alias = calling[c].read.alias, !.active = calling[c].read.active]]
  /\ UNCHANGED <<card, relay, issued, clicks, mails, troubles, astray>>

\* a call fails, or its answer is lost on the way
Troubled(c) ==
  /\ calling[c].at # "free" /\ troubles < MaxTroubles /\ troubles' = troubles + 1
  /\ Failed(c)
  /\ astray' = (astray \/ (calling[c].act \in Issues /\ calling[c].at = "answered"))
  /\ UNCHANGED <<relay, issued, clicks, mails>>

\* a confirmation comes, with a source unless there is one; and the source is proven
ConfirmationComes ==
  /\ relay.alias # 0 /\ mails < MaxMails /\ mails' = mails + 1
  /\ relay' = IF relay.source # 0 THEN [relay EXCEPT !.letter = relay.source]
              ELSE [relay EXCEPT !.source = mails + 1, !.letter = mails + 1]
  /\ UNCHANGED <<card, calling, issued, clicks, troubles, astray>>
SourceProven ==
  /\ relay.source # 0 /\ ~relay.proven
  /\ relay' = [relay EXCEPT !.proven = TRUE, !.active = TRUE, !.letter = 0]
  /\ UNCHANGED <<card, calling, issued, clicks, mails, troubles, astray>>

CardInit ==
  /\ card = NoCard
  /\ \E c \in Calls : calling = [d \in Calls |-> IF d = c THEN [NoCall EXCEPT !.act = "state", !.at = "sent"] ELSE NoCall]
  /\ relay \in {NoRelay, [NoRelay EXCEPT !.alias = 1]}
  /\ issued = 1 /\ clicks = 0 /\ mails = 0 /\ troubles = 0
  /\ astray = FALSE

CardNext ==
  \/ \E c \in Calls :
       \/ Refreshes(c) \/ (\E o \in Offers : Acts(c, o))
       \/ Loaded(c) \/ Issued(c) \/ Acted(c)
       \/ IssueAlias(c) \/ RevokesAll(c) \/ RevokesSource(c) \/ UpdatesVerification(c) \/ Prepares(c)
       \/ ReadsAlias(c) \/ ReadsSources(c) \/ Troubled(c)
  \/ ConfirmationComes \/ SourceProven

CardSpec == CardInit /\ [][CardNext]_relayCard

-----------------------------------------------------------------------------
\* The full address is told once and can be read nowhere else (EmailRelayCard, "solo se muestra
\* una vez"): when an alias has been issued to this page, the page shows its address for as
\* long as the alias is in use, whatever refreshes and other actions are answered before and
\* after - unless two issues overlapped, which a link clicked meanwhile makes possible, or the
\* answer was lost.
IssuedShown ==
  ~astray /\ relay.alias > 1 /\ (\A c \in Calls : calling[c].act \notin Issues)
    => card.address = relay.alias
=============================================================================
