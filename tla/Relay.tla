------------------------------- MODULE Relay -------------------------------
(***************************************************************************)
(* The email relay of one user: private aliases, the sources behind them,  *)
(* what a user sets up (email-relay-settings), and the gateway that takes  *)
(* a forwarded mail through link test, matching, event and verification    *)
(* (email-relay-ingest), while the user rotates and revokes.               *)
(*                                                                         *)
(* Every database function is one step; they lock the alias or read once.  *)
(* service_create_email_relay_link_test locks nothing and takes two.       *)
(* Signature, replay and rate checks come before the first step: a mail    *)
(* they refuse leaves no trace here.                                       *)
(***************************************************************************)
EXTENDS Integers, FiniteSets

CONSTANTS
  MaxAliases,  \* bound: aliases, numbered as they are issued
  Providers,   \* gmail, outlook, proton
  MaxSources,  \* bound: sources of one provider under one alias, one after the other
  MaxTests,    \* bound: link tests of one source
  Mails,       \* [to: alias, kind, provider and proof that its authentication shows, test]
  Handlers,    \* concurrent invocations of email-relay-ingest
  NoMail, NoSource, RevokedSource, NoTest,
  MaxFaults    \* bound: handlers that fail or are stopped, updates that fail unnoticed

Aliases == 1..MaxAliases
Source == [alias : Aliases, provider : Providers, n : 1..MaxSources]
Test == [of : Source, n : 1..MaxTests]

\* strong evidence with a forwarding path, strong evidence without, or none
Proofs == {"path", "strong", "weak"}

ASSUME RelayAssumption ==
  /\ Mails \subseteq [to : Aliases, id : Nat, provider : Providers, proof : Proofs,
                      kind : {"verification", "test", "financial", "other"},
                      test : Test \cup {NoTest}]
  /\ \A m \in Mails : m.kind = "test" => m.test \in Test
  /\ NoMail \notin Mails /\ IsFiniteSet(Mails)
  /\ NoSource \notin Source /\ RevokedSource \notin Source /\ NoSource # RevokedSource
  /\ MaxAliases \in Nat /\ MaxSources \in Nat /\ MaxTests \in Nat /\ MaxFaults \in Nat

VARIABLES
  alias,    \* email_relay_aliases.status, "none" before the token is issued
  conn,     \* status of the user's one source_connections row for the relay
  src,      \* email_relay_sources.status
  intents,  \* email_relay_setup_intents that have not expired
  test,     \* email_relay_link_tests.status
  opening,  \* link tests whose transaction has read the source and not yet inserted
  event,    \* source_events.processing_status of each mail
  inbox,    \* email_relay_forwarding_verifications: [status, source], by its event
  pc, mail, sid, \* where a handler is, its mail, and the source it matched
  faults    \* number of faults so far

setupVars == <<alias, conn, src, intents, test, opening>>
handlerVars == <<pc, mail, sid>>
vars == <<setupVars, event, inbox, handlerVars, faults>>

Alive(a) == alias[a] \in {"pending", "active"}
Live(s) == src[s] \in {"pending", "active"}
SourcesOf(a, p) == {s \in Source : s.alias = a /\ s.provider = p}
LiveOf(a, p) == {s \in SourcesOf(a, p) : Live(s)}
RevokedOf(a, p) == {s \in SourcesOf(a, p) : src[s] = "revoked"}
\* a verification that is pending or opened keeps its link and code; resolved, dismissed or
\* expired it has lost them
Actionable(v) == v.status = "pending"
Cleared(v) == [v EXCEPT !.status = "cleared"]

-----------------------------------------------------------------------------
(* email-relay-settings. *)

\* what goes with the sources S: their tests and the verifications in their name
Dismiss(S) ==
  /\ test' = [t \in Test |->
                IF t.of \in S /\ test[t] = "pending" THEN "dismissed" ELSE test[t]]
  /\ inbox' = [m \in Mails |->
                 IF Actionable(inbox[m]) /\ inbox[m].source \in S
                   THEN Cleared(inbox[m]) ELSE inbox[m]]

\* mutant: sources that were never active are forgotten
ActiveUnder(a) == {s \in Source : s.alias = a /\ src[s] = "active"}

SourcesUnder(a) == {s \in Source : s.alias = a}

\* everything under the alias a is revoked
Withdraw(a) ==
  /\ src' = [s \in Source |-> IF s \in SourcesUnder(a) /\ Live(s) THEN "revoked" ELSE src[s]]
  /\ Dismiss(SourcesUnder(a))
  /\ intents' = {i \in intents : i.alias # a}

\* service_create_or_rotate_email_relay_alias
Rotate(a) ==
  /\ alias[a] = "none" /\ \A b \in Aliases : b < a => alias[b] # "none"
  /\ alias' = [b \in Aliases |-> IF b = a THEN "pending"
                                 ELSE IF Alive(b) THEN "revoked" ELSE alias[b]]
  /\ \/ \E b \in Aliases : Alive(b) /\ Withdraw(b)
     \/ (\A b \in Aliases : ~Alive(b)) /\ UNCHANGED <<src, test, inbox, intents>>
  /\ conn' = "pending"
  /\ UNCHANGED <<opening, event, handlerVars, faults>>

\* service_revoke_email_relay_alias
RevokeAlias(a) ==
  /\ Alive(a)
  /\ alias' = [alias EXCEPT ![a] = "revoked"]
  /\ Withdraw(a)
  /\ conn' = "revoked"
  /\ UNCHANGED <<opening, event, handlerVars, faults>>

\* service_revoke_email_relay_source
RevokeSource(s) ==
  /\ Live(s)
  /\ src' = [src EXCEPT ![s] = "revoked"]
  /\ Dismiss({s})
  /\ intents' = {i \in intents : ~(i.alias = s.alias /\ i.provider = s.provider)}
  /\ UNCHANGED <<alias, conn, opening, event, handlerVars, faults>>

\* service_create_email_relay_setup_intent.  Its clock is read before it waits for the alias:
\* the intent may look older than a revocation it waited for.
SelectProvider(a, p) ==
  /\ Alive(a)
  /\ \E newer \in BOOLEAN :
       /\ newer \/ RevokedOf(a, p) # {}
       /\ intents' = {i \in intents : ~(i.alias = a /\ i.provider = p)}
                       \cup {[alias |-> a, provider |-> p, newer |-> newer]}
  /\ UNCHANGED <<alias, conn, src, test, opening, event, inbox, handlerVars, faults>>

IntentExpires(i) ==
  /\ intents' = intents \ {i}
  /\ UNCHANGED <<alias, conn, src, test, opening, event, inbox, handlerVars, faults>>

\* service_create_email_relay_link_test reads the source, locking nothing ...
BeginTest(t) ==
  /\ test[t] = "none" /\ Live(t.of)
  /\ opening' = opening \cup {t}
  /\ UNCHANGED <<alias, conn, src, intents, test, event, inbox, handlerVars, faults>>

\* ... dismisses the tests before this one, and inserts it
EndTest(t) ==
  /\ opening' = opening \ {t}
  /\ test' = [u \in Test |-> IF u = t THEN "pending"
                             ELSE IF u.of = t.of /\ test[u] = "pending" THEN "dismissed"
                             ELSE test[u]]
  /\ UNCHANGED <<alias, conn, src, intents, event, inbox, handlerVars, faults>>

\* service_update_email_relay_forwarding_verification, and the purge when the inbox is listed
ClearVerification(m) ==
  /\ Actionable(inbox[m])
  /\ inbox' = [inbox EXCEPT ![m] = Cleared(inbox[m])]
  /\ UNCHANGED <<setupVars, event, handlerVars, faults>>

-----------------------------------------------------------------------------
(* email-relay-ingest. *)

Work(h) == pc[h] # "idle"
\* the handler has written the event of its mail
Past(h) == pc[h] \in {"ignore", "rematch", "register", "mark", "ingest", "state", "inbox"}
Goto(h, l) == pc' = [pc EXCEPT ![h] = l]
Leave(h) ==
  /\ Goto(h, "idle")
  /\ mail' = [mail EXCEPT ![h] = NoMail]
  /\ sid' = [sid EXCEPT ![h] = NoSource]

\* an authenticated provider asks for a confirmation
Verifies(m) == m.kind = "verification" /\ m.proof # "weak"

\* what may be matched with a source
Matchable(m) == m.proof = "path" \/ Verifies(m)

\* service_match_email_relay_source
Matches(a, p, r) ==
  \/ r \in Source /\ LiveOf(a, p) = {r}
  \/ r = RevokedSource /\ LiveOf(a, p) = {} /\ RevokedOf(a, p) # {}
  \/ r = NoSource /\ (LiveOf(a, p) = {} => RevokedOf(a, p) = {})
                  /\ (\A s \in LiveOf(a, p) : LiveOf(a, p) # {s})

\* the alias is resolved and the user entitled
Resolve(h, m) ==
  /\ ~Work(h) /\ Alive(m.to)
  /\ mail' = [mail EXCEPT ![h] = m]
  /\ Goto(h, IF m.kind = "test" /\ m.proof = "path" THEN "test" ELSE "match")
  /\ UNCHANGED <<setupVars, event, inbox, sid, faults>>

\* service_complete_email_relay_link_test; a test that is pending may have expired
CompleteTest(h) ==
  LET m == mail[h] t == m.test s == t.of IN
    /\ pc[h] = "test"
    /\ \/ /\ test[t] = "pending" /\ s.alias = m.to /\ s.provider = m.provider
          /\ Live(s) /\ Alive(m.to) /\ conn # "revoked"
          /\ test' = [test EXCEPT ![t] = "received"]
          /\ src' = [src EXCEPT ![s] = "active"]
          /\ alias' = [alias EXCEPT ![m.to] = "active"]
          /\ conn' = "active"
          /\ inbox' = [v \in Mails |->
                         IF Actionable(inbox[v]) /\ inbox[v].source = s
                           THEN Cleared(inbox[v]) ELSE inbox[v]]
          /\ Leave(h)
          /\ UNCHANGED <<intents, opening>>
       \/ Goto(h, "match") /\ UNCHANGED <<setupVars, inbox, mail, sid>>
    /\ UNCHANGED <<event, faults>>

MatchSource(h) ==
  LET m == mail[h] IN
    /\ pc[h] = "match"
    /\ Goto(h, "insert")
    /\ \E r \in Source \cup {NoSource, RevokedSource} :
         /\ IF Matchable(m) THEN Matches(m.to, m.provider, r) ELSE r = NoSource
         /\ sid' = [sid EXCEPT ![h] = r]
    /\ UNCHANGED <<setupVars, event, inbox, mail, faults>>

\* mutant: a repeated mail whose event was not settled is worked on again
IsNewOrReceived(m) == event[m] \in {"none", "received"}

\* the unique indexes on message id and content admit an event of this mail
IsNew(m) == event[m] = "none"

\* what follows: a verification is matched again, the mail of a revoked source is ignored
AfterInsert(m, r) ==
  IF Verifies(m) THEN "rematch"
  ELSE IF r # RevokedSource /\ m.kind = "financial" THEN "ingest" ELSE "ignore"

InsertEvent(h) ==
  LET m == mail[h] IN
    /\ pc[h] = "insert"
    /\ \/ /\ IsNew(m)
          /\ event' = [event EXCEPT ![m] = "received"]
          /\ Goto(h, AfterInsert(m, sid[h])) /\ UNCHANGED <<mail, sid>>
       \/ ~IsNew(m) /\ Leave(h) /\ UNCHANGED event
    /\ UNCHANGED <<setupVars, inbox, faults>>

\* the event is marked as settled; nobody looks at the error of this update
MarkIgnored(m) ==
  \/ event' = [event EXCEPT ![m] = "ignored"] /\ UNCHANGED faults
  \/ faults < MaxFaults /\ faults' = faults + 1 /\ UNCHANGED event

\* revoked, unavailable, or nothing financial in it
Ignore(h) ==
  /\ pc[h] = "ignore"
  /\ MarkIgnored(mail[h])
  /\ Leave(h)
  /\ UNCHANGED <<setupVars, inbox>>

\* a verification is matched a second time
Rematch(h) ==
  LET m == mail[h] IN
    /\ pc[h] = "rematch"
    /\ \E r \in Source \cup {NoSource, RevokedSource} :
         /\ Matches(m.to, m.provider, r)
         /\ sid' = [sid EXCEPT ![h] = r]
         /\ Goto(h, IF r \in Source THEN "mark" ELSE "register")
    /\ UNCHANGED <<setupVars, event, inbox, mail, faults>>

\* service_upsert_email_relay_source_from_inbound
Register(h) ==
  LET m == mail[h]
      a == m.to
      p == m.provider
      usable == {i \in intents : i.alias = a /\ i.provider = p
                                 /\ (RevokedOf(a, p) = {} \/ i.newer)}
  IN
    /\ pc[h] = "register"
    /\ \/ /\ ~Alive(a) \/ (LiveOf(a, p) = {} /\ usable = {}) \/ Cardinality(LiveOf(a, p)) > 1
          /\ Goto(h, "ignore") /\ UNCHANGED <<src, intents, sid>>
       \/ /\ Alive(a)
          /\ \E s \in Source : LiveOf(a, p) = {s} /\ sid' = [sid EXCEPT ![h] = s]
          /\ Goto(h, "mark") /\ UNCHANGED <<src, intents>>
       \/ /\ Alive(a) /\ LiveOf(a, p) = {}
          /\ \E i \in usable : intents' = intents \ {i}
          /\ \E s \in SourcesOf(a, p) :
               /\ src[s] = "none" /\ \A r \in SourcesOf(a, p) : r.n < s.n => src[r] # "none"
               /\ src' = [src EXCEPT ![s] = "pending"]
               /\ sid' = [sid EXCEPT ![h] = s]
          /\ Goto(h, "mark")
    /\ UNCHANGED <<alias, conn, test, opening, event, inbox, mail, faults>>

MarkVerification(h) ==
  /\ pc[h] = "mark"
  /\ MarkIgnored(mail[h])
  /\ Goto(h, "state")
  /\ UNCHANGED <<setupVars, inbox, mail, sid>>

\* ingestCandidate, whose steps are those of Ledger; it settles the event itself
Ingest(h) ==
  /\ pc[h] = "ingest"
  /\ event' = [event EXCEPT ![mail[h]] = "parsed"]
  /\ IF sid[h] = NoSource THEN Leave(h) ELSE Goto(h, "state") /\ UNCHANGED <<mail, sid>>
  /\ UNCHANGED <<setupVars, inbox, faults>>

\* mutant: the source is not asked whether it was revoked
UpdatableAny(s) == TRUE

Updatable(s) == src[s] # "revoked"

\* mutant: the connection is written although the alias was revoked
StateAnyAlias(a, s, st) ==
  /\ alias' = IF Alive(a) /\ ~(alias[a] = "active" /\ st = "pending")
                THEN [alias EXCEPT ![a] = st] ELSE alias
  /\ src' = IF Updatable(s) THEN [src EXCEPT ![s] = st] ELSE src
  /\ conn' = st

\* service_update_email_relay_state
State(a, s, st) ==
  IF ~Alive(a) THEN UNCHANGED <<alias, src, conn>>
  ELSE /\ alias' = IF alias[a] = "active" /\ st = "pending"
                     THEN alias ELSE [alias EXCEPT ![a] = st]
       /\ src' = IF Updatable(s) THEN [src EXCEPT ![s] = st] ELSE src
       /\ conn' = alias'[a]

\* mutant: a confirmation activates the source
ActiveAlways(m) == "active"

\* a confirmation leaves the source waiting for a proof
NewStatus(m) == IF Verifies(m) THEN "pending" ELSE "active"

UpdateState(h) ==
  LET m == mail[h] IN
    /\ pc[h] = "state"
    /\ State(m.to, sid[h], NewStatus(m))
    /\ IF Verifies(m) THEN Goto(h, "inbox") /\ UNCHANGED <<mail, sid>> ELSE Leave(h)
    /\ UNCHANGED <<intents, test, opening, event, inbox, faults>>

\* service_create_email_relay_forwarding_verification
CreateVerification(h) ==
  LET m == mail[h] IN
    /\ pc[h] = "inbox"
    /\ inbox' = IF inbox[m].status # "none" THEN inbox
                ELSE [v \in Mails |->
                        IF v = m THEN [status |-> "pending", source |-> sid[h]]
                        ELSE IF Actionable(inbox[v]) /\ inbox[v].source = sid[h]
                          THEN Cleared(inbox[v]) ELSE inbox[v]]
    /\ Leave(h)
    /\ UNCHANGED <<setupVars, event, faults>>

\* a call fails, the database breaks a deadlock, or the invocation is stopped
HandlerFails(h) ==
  /\ Work(h) /\ faults < MaxFaults
  /\ faults' = faults + 1
  /\ Leave(h)
  /\ UNCHANGED <<setupVars, event, inbox>>

-----------------------------------------------------------------------------
Init ==
  /\ alias = [a \in Aliases |-> "none"]
  /\ conn = "none"
  /\ src = [s \in Source |-> "none"]
  /\ intents = {}
  /\ test = [t \in Test |-> "none"]
  /\ opening = {}
  /\ event = [m \in Mails |-> "none"]
  /\ inbox = [m \in Mails |-> [status |-> "none", source |-> NoSource]]
  /\ pc = [h \in Handlers |-> "idle"]
  /\ mail = [h \in Handlers |-> NoMail]
  /\ sid = [h \in Handlers |-> NoSource]
  /\ faults = 0

Settings ==
  \/ \E a \in Aliases : Rotate(a) \/ RevokeAlias(a)
  \/ \E a \in Aliases, p \in Providers : SelectProvider(a, p)
  \/ \E i \in intents : IntentExpires(i)
  \/ \E s \in Source : RevokeSource(s)
  \/ \E t \in Test : BeginTest(t)
  \/ \E t \in opening : EndTest(t)
  \/ \E m \in Mails : ClearVerification(m)

Handle(h) ==
  \/ CompleteTest(h) \/ MatchSource(h) \/ InsertEvent(h) \/ Ignore(h)
  \/ Rematch(h) \/ Register(h) \/ MarkVerification(h) \/ Ingest(h)
  \/ UpdateState(h) \/ CreateVerification(h) \/ HandlerFails(h)

Next ==
  \/ Settings
  \/ \E h \in Handlers, m \in Mails : Resolve(h, m)
  \/ \E h \in Handlers : Handle(h)

Spec == Init /\ [][Next]_vars

-----------------------------------------------------------------------------
Verification == [status : {"none", "pending", "cleared"},
                 source : Source \cup {NoSource}]

SetupTypes ==
  /\ alias \in [Aliases -> {"none", "pending", "active", "revoked"}]
  /\ conn \in {"none", "pending", "active", "revoked"}
  /\ src \in [Source -> {"none", "pending", "active", "revoked"}]
  /\ intents \subseteq [alias : Aliases, provider : Providers, newer : BOOLEAN]
  /\ test \in [Test -> {"none", "pending", "received", "dismissed"}]
  /\ opening \subseteq Test

HandlerTypes ==
  /\ event \in [Mails -> {"none", "received", "ignored", "parsed"}]
  /\ inbox \in [Mails -> Verification]
  /\ pc \in [Handlers -> {"idle", "test", "match", "insert", "ignore", "rematch", "register",
                          "mark", "ingest", "state", "inbox"}]
  /\ mail \in [Handlers -> Mails \cup {NoMail}]
  /\ \A h \in Handlers : Work(h) <=> mail[h] # NoMail
  /\ sid \in [Handlers -> Source \cup {NoSource, RevokedSource}]
  /\ \A h \in Handlers : pc[h] \in {"mark", "state", "inbox"} => sid[h] \in Source
  /\ faults \in 0..MaxFaults

\* Types; nobody marks an event, writes a state or files a verification without a source.
TypeOK == SetupTypes /\ HandlerTypes

\* One alias of the user is in use.  Only it has live sources, one for each provider, and only
\* it has setup intents, so that no late mail revives what was rotated away.
LiveTree ==
  /\ \A a, b \in Aliases : Alive(a) /\ Alive(b) => a = b
  /\ \A s \in Source : Live(s) => Alive(s.alias)
  /\ \A s, t \in Source :
       Live(s) /\ Live(t) /\ s.alias = t.alias /\ s.provider = t.provider => s = t
  /\ \A i \in intents : Alive(i.alias)

\* The one connection row, which all aliases of a user share, shows the alias in use: a mail to
\* an earlier alias that is still under way changes nothing of it.
ConnectionFollows ==
  /\ \A a \in Aliases : Alive(a) => conn = alias[a]
  /\ (\A a \in Aliases : ~Alive(a)) => conn \in {"none", "revoked"}

\* the handler has yet to settle the event of its mail
Owes(h) == pc[h] \in {"ignore", "rematch", "register", "mark", "ingest"}
Abandoned == {m \in Mails : /\ event[m] = "received"
                            /\ ~\E h \in Handlers : Owes(h) /\ mail[h] = m}

\* A mail that is repeated, or arrives twice at once, is worked on by one invocation; and as many
\* events are abandoned unsettled, at most, as invocations or updates failed.
MailHandledOnce ==
  /\ \A h, k \in Handlers : Past(h) /\ Past(k) /\ mail[h] = mail[k] => h = k
  /\ Cardinality(Abandoned) <= faults

\* docs/RELEASE_CONTRACT.md, section 10: a source, and with it its alias, becomes active only by
\* a mail that proved a forwarding path of its provider to its alias.
ActiveMeansProven ==
  [][/\ \A s \in Source :
          src[s] # "active" /\ src'[s] = "active" =>
            \E h \in Handlers : /\ Work(h) /\ mail[h].proof = "path"
                                /\ mail[h].to = s.alias /\ mail[h].provider = s.provider
     /\ \A a \in Aliases :
          alias[a] # "active" /\ alias'[a] = "active" =>
            \E h \in Handlers : Work(h) /\ mail[h].proof = "path" /\ mail[h].to = a]_vars

\* What was revoked stays revoked, and a verification that was cleared is not shown again,
\* whatever mails and tests were under way.
RevocationIsFinal ==
  [][/\ \A s \in Source : src[s] = "revoked" => src'[s] = "revoked"
     /\ \A a \in Aliases : alias[a] = "revoked" => alias'[a] = "revoked"
     /\ \A m \in Mails : inbox[m].status = "cleared" => inbox'[m] = inbox[m]]_vars
=============================================================================
