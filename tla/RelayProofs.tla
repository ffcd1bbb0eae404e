---------------------------- MODULE RelayProofs -----------------------------
(***************************************************************************)
(* Proofs about Relay, for any number of aliases, providers, sources,      *)
(* mails, invocations and faults: types, the tree of what is live, the     *)
(* connection, revocation that stays, proof before activity, and one       *)
(* invocation for each mail; and about Card: the address that is shown.    *)
(***************************************************************************)
EXTENDS Relay, Card, TLAPS, FiniteSetTheorems

(* What a handler carries from one call to the next: a source it holds exists and is of its *)
(* mail's alias and provider, and a mail that is no confirmation has proved its path.        *)
Matched ==
  \A h \in Handlers :
    /\ sid[h] \in Source =>
         /\ Work(h) /\ src[sid[h]] # "none"
         /\ sid[h].alias = mail[h].to /\ sid[h].provider = mail[h].provider
         /\ Verifies(mail[h]) \/ mail[h].proof = "path"
    /\ pc[h] = "test" => mail[h].kind = "test" /\ mail[h].proof = "path"
    /\ pc[h] = "ingest" => ~Verifies(mail[h]) /\ sid[h] # RevokedSource
    /\ pc[h] \in {"rematch", "register", "mark", "inbox"} => Verifies(mail[h])

(* The unique indexes act as a lock: whoever is past the insert has an event, alone.         *)
Exclusive ==
  /\ \A h \in Handlers : Past(h) => event[mail[h]] # "none"
  /\ \A h, k \in Handlers : Past(h) /\ Past(k) /\ mail[h] = mail[k] => h = k

treeVars == <<alias, conn, src, intents>>

LEMMA MailParts ==
  ASSUME NEW m \in Mails
  PROVE  /\ m.to \in Aliases /\ m.provider \in Providers /\ m # NoMail
         /\ m.kind = "test" => m.test \in Test
BY RelayAssumption

LEMMA SourceParts ==
  ASSUME NEW s \in Source
  PROVE  s.alias \in Aliases /\ s.provider \in Providers /\ s # NoSource /\ s # RevokedSource
BY RelayAssumption DEF Source

LEMMA TestParts == ASSUME NEW t \in Test PROVE t.of \in Source
BY DEF Test

(* A source is matched only if it is live and of that alias and provider. *)
LEMMA MatchedIsLive ==
  ASSUME NEW a, NEW p, NEW r \in Source, Matches(a, p, r)
  PROVE  Live(r) /\ r.alias = a /\ r.provider = p
BY SourceParts DEF Matches, LiveOf, SourcesOf

(* Steps that concern neither aliases, sources nor intents. *)
LEMMA OthersLeaveTree ==
  ASSUME \/ \E t \in Test : BeginTest(t) \/ EndTest(t)
         \/ \E m \in Mails : ClearVerification(m)
         \/ \E h \in Handlers : \/ \E m \in Mails : Resolve(h, m)
                                \/ MatchSource(h) \/ InsertEvent(h) \/ Ignore(h)
                                \/ Rematch(h) \/ MarkVerification(h) \/ Ingest(h)
                                \/ CreateVerification(h) \/ HandlerFails(h)
  PROVE  UNCHANGED treeVars
BY DEF treeVars, setupVars, BeginTest, EndTest, ClearVerification, Resolve, MatchSource,
       InsertEvent, Ignore, Rematch, MarkVerification, Ingest, CreateVerification, HandlerFails

(* Settings leave the handlers and the events alone. *)
LEMMA SettingsLeaveHandlers ==
  ASSUME Settings
  PROVE  UNCHANGED <<event, pc, mail, sid, faults>>
BY DEF Settings, handlerVars, setupVars, Rotate, RevokeAlias, SelectProvider, IntentExpires,
       RevokeSource, BeginTest, EndTest, ClearVerification

-----------------------------------------------------------------------------
(* Types. *)

LEMMA ClearedType == ASSUME NEW v \in Verification PROVE Cleared(v) \in Verification
BY DEF Cleared, Verification

LEMMA DismissTypes ==
  ASSUME SetupTypes, HandlerTypes, NEW S, Dismiss(S)
  PROVE  /\ test' \in [Test -> {"none", "pending", "received", "dismissed"}]
         /\ inbox' \in [Mails -> Verification]
<1>1. \A m \in Mails : inbox[m] \in Verification /\ Cleared(inbox[m]) \in Verification
  BY ClearedType DEF HandlerTypes
<1> QED BY <1>1 DEF Dismiss, SetupTypes

LEMMA WithdrawTypes ==
  ASSUME SetupTypes, HandlerTypes, NEW a, Withdraw(a)
  PROVE  /\ src' \in [Source -> {"none", "pending", "active", "revoked"}]
         /\ intents' \subseteq [alias : Aliases, provider : Providers, newer : BOOLEAN]
         /\ test' \in [Test -> {"none", "pending", "received", "dismissed"}]
         /\ inbox' \in [Mails -> Verification]
<1>1. Dismiss(SourcesUnder(a)) BY DEF Withdraw
<1> QED BY <1>1, DismissTypes DEF Withdraw, SetupTypes

LEMMA StateTypes ==
  ASSUME SetupTypes, NEW a \in Aliases, NEW s \in Source, NEW st \in {"pending", "active"},
         State(a, s, st)
  PROVE  /\ alias' \in [Aliases -> {"none", "pending", "active", "revoked"}]
         /\ src' \in [Source -> {"none", "pending", "active", "revoked"}]
         /\ conn' \in {"none", "pending", "active", "revoked"}
BY DEF SetupTypes, State

LEMMA SettingsTypes ==
  ASSUME TypeOK, Settings
  PROVE  TypeOK'
<1> USE DEF TypeOK
<1>0. UNCHANGED <<event, pc, mail, sid, faults>> BY SettingsLeaveHandlers
<1>h. ASSUME inbox' \in [Mails -> Verification] PROVE HandlerTypes'
  BY <1>0, <1>h DEF HandlerTypes, Work
<1>1. ASSUME NEW a \in Aliases, Rotate(a) PROVE TypeOK'
  <2>1. CASE \E b \in Aliases : Withdraw(b)
    <3>1. PICK b \in Aliases : Withdraw(b) BY <2>1
    <3> QED BY <1>1, <1>h, <3>1, WithdrawTypes DEF Rotate, SetupTypes
  <2>2. CASE UNCHANGED <<src, test, inbox, intents>>
    BY <1>1, <1>h, <2>2 DEF Rotate, SetupTypes, HandlerTypes
  <2> QED BY <1>1, <2>1, <2>2 DEF Rotate
<1>2. ASSUME NEW a \in Aliases, RevokeAlias(a) PROVE TypeOK'
  BY <1>2, <1>h, WithdrawTypes DEF RevokeAlias, SetupTypes
<1>3. ASSUME NEW s \in Source, RevokeSource(s) PROVE TypeOK'
  <2>1. Dismiss({s}) BY <1>3 DEF RevokeSource
  <2> QED BY <1>3, <1>h, <2>1, DismissTypes DEF RevokeSource, SetupTypes
<1>4. ASSUME NEW a \in Aliases, NEW p \in Providers, SelectProvider(a, p) PROVE TypeOK'
  BY <1>4, <1>h DEF SelectProvider, SetupTypes, HandlerTypes
<1>5. ASSUME NEW i \in intents, IntentExpires(i) PROVE TypeOK'
  BY <1>5, <1>h DEF IntentExpires, SetupTypes, HandlerTypes
<1>6. ASSUME NEW t \in Test, BeginTest(t) \/ EndTest(t) PROVE TypeOK'
  BY <1>6, <1>h DEF BeginTest, EndTest, SetupTypes, HandlerTypes
<1>7. ASSUME NEW m \in Mails, ClearVerification(m) PROVE TypeOK'
  <2>1. Cleared(inbox[m]) \in Verification BY ClearedType DEF HandlerTypes
  <2> QED BY <1>7, <1>h, <2>1 DEF ClearVerification, SetupTypes, HandlerTypes, setupVars
<1>8. \A t \in opening : t \in Test BY DEF SetupTypes
<1> QED BY <1>1, <1>2, <1>3, <1>4, <1>5, <1>6, <1>7, <1>8 DEF Settings

(* The handler of a mail that is under way holds a mail of Mails. *)
LEMMA WorksOnMail ==
  ASSUME TypeOK, NEW h \in Handlers, Work(h)
  PROVE  mail[h] \in Mails
BY DEF TypeOK, HandlerTypes

LEMMA LeaveTypes ==
  ASSUME HandlerTypes, NEW h \in Handlers, Leave(h),
         event' \in [Mails -> {"none", "received", "ignored", "parsed"}],
         inbox' \in [Mails -> Verification], faults' \in 0..MaxFaults
  PROVE  HandlerTypes'
BY SourceParts DEF HandlerTypes, Leave, Goto, Work

LEMMA SetupSteady ==
  ASSUME SetupTypes, UNCHANGED setupVars
  PROVE  SetupTypes'
BY DEF SetupTypes, setupVars

LEMMA CompleteTestTypes ==
  ASSUME TypeOK, Matched, NEW h \in Handlers, CompleteTest(h)
  PROVE  TypeOK'
<1> DEFINE m == mail[h]  t == m.test  s == t.of
<1>1. m \in Mails /\ m.kind = "test" BY WorksOnMail DEF CompleteTest, Work, Matched
<1>2. m.to \in Aliases /\ t \in Test BY <1>1, MailParts
<1>3. s \in Source BY <1>2, TestParts
<1>4. CASE Goto(h, "match") /\ UNCHANGED <<setupVars, inbox, mail, sid>>
  <2>1. SetupTypes' BY <1>4, SetupSteady DEF TypeOK
  <2>2. HandlerTypes'
    BY <1>4 DEF TypeOK, HandlerTypes, CompleteTest, Goto, Work
  <2> QED BY <2>1, <2>2 DEF TypeOK
<1>5. CASE /\ test' = [test EXCEPT ![t] = "received"]
           /\ src' = [src EXCEPT ![s] = "active"]
           /\ alias' = [alias EXCEPT ![m.to] = "active"]
           /\ conn' = "active"
           /\ inbox' = [v \in Mails |->
                          IF Actionable(inbox[v]) /\ inbox[v].source = s
                            THEN Cleared(inbox[v]) ELSE inbox[v]]
           /\ Leave(h)
           /\ UNCHANGED <<intents, opening>>
  <2>1. SetupTypes' BY <1>5, <1>2, <1>3 DEF TypeOK, SetupTypes
  <2>2. \A v \in Mails : inbox[v] \in Verification /\ Cleared(inbox[v]) \in Verification
    BY ClearedType DEF TypeOK, HandlerTypes
  <2>3. inbox' \in [Mails -> Verification] BY <1>5, <2>2
  <2>4. UNCHANGED <<event, faults>> BY DEF CompleteTest
  <2>5. HandlerTypes' BY <1>5, <2>3, <2>4, LeaveTypes DEF TypeOK, HandlerTypes
  <2> QED BY <2>1, <2>5 DEF TypeOK
<1> QED BY <1>4, <1>5 DEF CompleteTest

LEMMA RegisterTypes ==
  ASSUME TypeOK, NEW h \in Handlers, Register(h)
  PROVE  TypeOK'
<1>1. UNCHANGED <<alias, conn, test, opening, event, inbox, mail, faults>> /\ pc[h] = "register"
  BY DEF Register
<1>2. CASE Goto(h, "ignore") /\ UNCHANGED <<src, intents, sid>>
  BY <1>1, <1>2 DEF TypeOK, SetupTypes, HandlerTypes, Goto, Work
<1>3. CASE /\ \E s \in Source : sid' = [sid EXCEPT ![h] = s]
           /\ Goto(h, "mark") /\ UNCHANGED <<src, intents>>
  BY <1>1, <1>3 DEF TypeOK, SetupTypes, HandlerTypes, Goto, Work
<1>4. CASE /\ \E i \in intents : intents' = intents \ {i}
           /\ \E s \in Source : src' = [src EXCEPT ![s] = "pending"]
                                /\ sid' = [sid EXCEPT ![h] = s]
           /\ Goto(h, "mark")
  <2>1. SetupTypes' BY <1>1, <1>4 DEF TypeOK, SetupTypes
  <2>2. HandlerTypes' BY <1>1, <1>4 DEF TypeOK, HandlerTypes, Goto, Work
  <2> QED BY <2>1, <2>2 DEF TypeOK
<1> QED BY <1>2, <1>3, <1>4 DEF Register, SourcesOf

LEMMA HandleTypes ==
  ASSUME TypeOK, Matched, NEW h \in Handlers,
         Handle(h) \/ \E m \in Mails : Resolve(h, m)
  PROVE  TypeOK'
<1> USE DEF TypeOK
<1>1. ASSUME NEW m \in Mails, Resolve(h, m) PROVE TypeOK'
  <2>1. SetupTypes' BY <1>1, SetupSteady DEF Resolve
  <2> QED BY <1>1, <2>1, MailParts DEF Resolve, Goto, HandlerTypes, Work
<1>2. CASE CompleteTest(h) BY <1>2, CompleteTestTypes
<1>3. CASE MatchSource(h)
  <2>1. SetupTypes' BY <1>3, SetupSteady DEF MatchSource
  <2> QED BY <1>3, <2>1 DEF MatchSource, Goto, HandlerTypes, Work
<1>4. CASE InsertEvent(h)
  <2>1. SetupTypes' BY <1>4, SetupSteady DEF InsertEvent
  <2>2. CASE /\ event' = [event EXCEPT ![mail[h]] = "received"]
             /\ Goto(h, AfterInsert(mail[h], sid[h])) /\ UNCHANGED <<mail, sid>>
    BY <1>4, <2>1, <2>2 DEF InsertEvent, Goto, HandlerTypes, Work, AfterInsert
  <2>3. CASE Leave(h) /\ UNCHANGED event
    BY <1>4, <2>1, <2>3, LeaveTypes DEF InsertEvent, HandlerTypes
  <2> QED BY <1>4, <2>2, <2>3 DEF InsertEvent
<1>5. CASE Ignore(h) \/ CreateVerification(h) \/ HandlerFails(h)
  <2>1. SetupTypes' BY <1>5, SetupSteady DEF Ignore, CreateVerification, HandlerFails
  <2>2. Leave(h) BY <1>5 DEF Ignore, CreateVerification, HandlerFails
  <2>3. event' \in [Mails -> {"none", "received", "ignored", "parsed"}]
    BY <1>5 DEF Ignore, MarkIgnored, CreateVerification, HandlerFails, HandlerTypes
  <2>4. inbox' \in [Mails -> Verification]
    <3>1. \A v \in Mails : inbox[v] \in Verification /\ Cleared(inbox[v]) \in Verification
      BY ClearedType DEF HandlerTypes
    <3>2. CASE CreateVerification(h)
      <4>1. [status |-> "pending", source |-> sid[h]] \in Verification
        BY <3>2 DEF CreateVerification, HandlerTypes, Verification
      <4> QED BY <3>1, <3>2, <4>1 DEF CreateVerification, HandlerTypes
    <3> QED BY <1>5, <3>2 DEF Ignore, HandlerFails, HandlerTypes
  <2>5. faults' \in 0..MaxFaults
    BY <1>5, RelayAssumption
       DEF Ignore, MarkIgnored, CreateVerification, HandlerFails, HandlerTypes
  <2> QED BY <2>1, <2>2, <2>3, <2>4, <2>5, LeaveTypes
<1>6. CASE Rematch(h)
  <2>1. SetupTypes' BY <1>6, SetupSteady DEF Rematch
  <2> QED BY <1>6, <2>1 DEF Rematch, Goto, HandlerTypes, Work
<1>7. CASE Register(h) BY <1>7, RegisterTypes
<1>8. CASE MarkVerification(h)
  <2>1. SetupTypes' BY <1>8, SetupSteady DEF MarkVerification
  <2>2. event' \in [Mails -> {"none", "received", "ignored", "parsed"}] /\ faults' \in 0..MaxFaults
    BY <1>8, RelayAssumption DEF MarkVerification, MarkIgnored, HandlerTypes
  <2> QED BY <1>8, <2>1, <2>2 DEF MarkVerification, Goto, HandlerTypes, Work
<1>9. CASE Ingest(h)
  <2>1. SetupTypes' BY <1>9, SetupSteady DEF Ingest
  <2>2. event' \in [Mails -> {"none", "received", "ignored", "parsed"}] /\ UNCHANGED <<inbox, faults>>
    BY <1>9 DEF Ingest, HandlerTypes
  <2>3. CASE Leave(h) BY <2>1, <2>2, <2>3, LeaveTypes DEF HandlerTypes
  <2>4. CASE sid[h] # NoSource /\ Goto(h, "state") /\ UNCHANGED <<mail, sid>>
    <3>1. sid[h] \in Source BY <1>9, <2>4 DEF Ingest, Matched, HandlerTypes
    <3> QED BY <1>9, <2>1, <2>2, <2>4, <3>1 DEF Ingest, Goto, HandlerTypes, Work
  <2> QED BY <1>9, <2>3, <2>4 DEF Ingest
<1>10. CASE UpdateState(h)
  <2>1. mail[h].to \in Aliases /\ sid[h] \in Source
    BY <1>10, WorksOnMail, MailParts DEF UpdateState, Work, HandlerTypes
  <2>2. State(mail[h].to, sid[h], NewStatus(mail[h])) BY <1>10 DEF UpdateState
  <2>3. SetupTypes'
    BY <1>10, <2>1, <2>2, StateTypes DEF UpdateState, NewStatus, SetupTypes
  <2>4. UNCHANGED <<event, inbox, faults>> BY <1>10 DEF UpdateState
  <2>5. CASE Leave(h) BY <2>3, <2>4, <2>5, LeaveTypes DEF HandlerTypes
  <2>6. CASE Goto(h, "inbox") /\ UNCHANGED <<mail, sid>>
    BY <1>10, <2>3, <2>4, <2>6 DEF UpdateState, Goto, HandlerTypes, Work
  <2> QED BY <1>10, <2>5, <2>6 DEF UpdateState
<1> QED BY <1>1, <1>2, <1>3, <1>4, <1>5, <1>6, <1>7, <1>8, <1>9, <1>10 DEF Handle

-----------------------------------------------------------------------------
(* What handlers carry. *)

(* No step forgets a source. *)
LEMMA SourcesRemain ==
  ASSUME TypeOK, Matched, Next
  PROVE  \A s \in Source : src[s] # "none" => src'[s] # "none"
<1> USE DEF TypeOK, SetupTypes
<1>1. ASSUME NEW a, Withdraw(a) PROVE \A s \in Source : src[s] # "none" => src'[s] # "none"
  BY <1>1 DEF Withdraw
<1>2. CASE Settings
  BY <1>1, <1>2 DEF Settings, Rotate, RevokeAlias, RevokeSource, SelectProvider, IntentExpires,
                   BeginTest, EndTest, ClearVerification, setupVars
<1>3. ASSUME NEW h \in Handlers, NEW m \in Mails, Resolve(h, m) PROVE src' = src
  BY <1>3 DEF Resolve, setupVars
<1>4. ASSUME NEW h \in Handlers, Handle(h)
      PROVE  \A s \in Source : src[s] # "none" => src'[s] # "none"
  <2>1. CASE CompleteTest(h)
    BY <2>1 DEF CompleteTest, setupVars
  <2>2. CASE Register(h) BY <2>2 DEF Register
  <2>3. CASE UpdateState(h) BY <2>3 DEF UpdateState, State, NewStatus
  <2>4. CASE ~(CompleteTest(h) \/ Register(h) \/ UpdateState(h))
    <3>1. src' = src BY <1>4, <2>4, OthersLeaveTree DEF Handle, treeVars
    <3> QED BY <3>1
  <2> QED BY <2>1, <2>2, <2>3, <2>4
<1> QED BY <1>2, <1>3, <1>4 DEF Next

(* A handler moves alone. *)
LEMMA HandlerMovesAlone ==
  ASSUME TypeOK, NEW h \in Handlers, Handle(h) \/ \E m \in Mails : Resolve(h, m)
  PROVE  \A k \in Handlers \ {h} : pc'[k] = pc[k] /\ mail'[k] = mail[k] /\ sid'[k] = sid[k]
BY DEF TypeOK, HandlerTypes, Handle, Resolve, CompleteTest, MatchSource, InsertEvent, Ignore,
       Rematch, Register, MarkVerification, Ingest, UpdateState, CreateVerification,
       HandlerFails, Leave, Goto

LEMMA MatchedStep ==
  ASSUME TypeOK, Matched, [Next]_vars
  PROVE  Matched'
<1>1. CASE UNCHANGED vars
  BY <1>1 DEF vars, setupVars, handlerVars, Matched, Work, Verifies
<1>2. CASE Settings
  BY <1>2, SettingsLeaveHandlers, SourcesRemain DEF Next, Matched, Work, Verifies
<1>3. ASSUME NEW h \in Handlers, Handle(h) \/ \E m \in Mails : Resolve(h, m) PROVE Matched'
  <2>0. Next BY <1>3 DEF Next
  <2> DEFINE Ok(k) ==
        /\ sid[k] \in Source =>
             /\ Work(k) /\ src[sid[k]] # "none"
             /\ sid[k].alias = mail[k].to /\ sid[k].provider = mail[k].provider
             /\ Verifies(mail[k]) \/ mail[k].proof = "path"
        /\ pc[k] = "test" => mail[k].kind = "test" /\ mail[k].proof = "path"
        /\ pc[k] = "ingest" => ~Verifies(mail[k]) /\ sid[k] # RevokedSource
        /\ pc[k] \in {"rematch", "register", "mark", "inbox"} => Verifies(mail[k])
  <2>1. \A k \in Handlers \ {h} : Ok(k)'
    BY <1>3, <2>0, HandlerMovesAlone, SourcesRemain DEF Matched, Work, Verifies
  <2>2. Ok(h)'
    <3> USE DEF Work, Goto
    <3>i. NoSource \notin Source /\ RevokedSource \notin Source /\ NoSource # RevokedSource
      BY RelayAssumption
    <3>l. ASSUME Leave(h) PROVE Ok(h)'
      BY <3>i, <3>l DEF Leave, TypeOK, HandlerTypes
    <3>s. ASSUME sid'[h] = sid[h], mail'[h] = mail[h], pc[h] # "idle", pc'[h] # "idle"
          PROVE  sid'[h] \in Source =>
                   /\ Work(h)' /\ src'[sid'[h]] # "none"
                   /\ sid'[h].alias = mail'[h].to /\ sid'[h].provider = mail'[h].provider
                   /\ Verifies(mail'[h]) \/ mail'[h].proof = "path"
      BY <3>s, <2>0, SourcesRemain DEF Matched, Verifies
    <3>1. ASSUME NEW m \in Mails, Resolve(h, m) PROVE Ok(h)'
      BY <3>1 DEF Resolve, TypeOK, HandlerTypes, Matched
    <3>2. CASE CompleteTest(h)
      <4>1. CASE Goto(h, "match") /\ UNCHANGED <<setupVars, inbox, mail, sid>>
        BY <3>2, <3>s, <4>1 DEF CompleteTest, TypeOK, HandlerTypes
      <4> QED BY <3>2, <3>l, <4>1 DEF CompleteTest
    <3>3. CASE MatchSource(h)
      <4>1. pc' = [pc EXCEPT ![h] = "insert"] /\ UNCHANGED <<setupVars, mail>>
        BY <3>3 DEF MatchSource
      <4>2. PICK r \in Source \cup {NoSource, RevokedSource} :
              /\ IF Matchable(mail[h]) THEN Matches(mail[h].to, mail[h].provider, r)
                                       ELSE r = NoSource
              /\ sid' = [sid EXCEPT ![h] = r]
        BY <3>3 DEF MatchSource
      <4>3. ASSUME r \in Source
            PROVE  /\ src[r] # "none" /\ Matchable(mail[h])
                   /\ r.alias = mail[h].to /\ r.provider = mail[h].provider
        BY <4>2, <4>3, <3>i, MatchedIsLive DEF Live
      <4> QED BY <4>1, <4>2, <4>3 DEF TypeOK, HandlerTypes, Matchable, setupVars, Verifies
    <3>4. CASE InsertEvent(h)
      <4>1. CASE Goto(h, AfterInsert(mail[h], sid[h])) /\ UNCHANGED <<mail, sid>>
        <5>1. pc'[h] = AfterInsert(mail[h], sid[h]) BY <4>1 DEF TypeOK, HandlerTypes
        <5>2. pc[h] = "insert" BY <3>4 DEF InsertEvent
        <5>3. AfterInsert(mail[h], sid[h]) \in {"rematch", "ingest", "ignore"}
          BY DEF AfterInsert
        <5>4. AfterInsert(mail[h], sid[h]) = "rematch" => Verifies(mail[h])
          BY DEF AfterInsert
        <5>5. AfterInsert(mail[h], sid[h]) = "ingest" =>
                ~Verifies(mail[h]) /\ sid[h] # RevokedSource
          BY DEF AfterInsert
        <5> QED BY <3>s, <4>1, <5>1, <5>2, <5>3, <5>4, <5>5 DEF Verifies
      <4> QED BY <3>4, <3>l, <4>1 DEF InsertEvent
    <3>5. CASE Ignore(h) \/ CreateVerification(h) \/ HandlerFails(h)
      BY <3>5, <3>l DEF Ignore, CreateVerification, HandlerFails
    <3>6. CASE Rematch(h)
      <4>1. pc[h] = "rematch" /\ UNCHANGED <<setupVars, mail>> BY <3>6 DEF Rematch
      <4>2. PICK r \in Source \cup {NoSource, RevokedSource} :
              /\ Matches(mail[h].to, mail[h].provider, r)
              /\ sid' = [sid EXCEPT ![h] = r]
              /\ Goto(h, IF r \in Source THEN "mark" ELSE "register")
        BY <3>6 DEF Rematch
      <4>3. ASSUME r \in Source
            PROVE  src[r] # "none" /\ r.alias = mail[h].to /\ r.provider = mail[h].provider
        BY <4>2, <4>3, <3>i, MatchedIsLive DEF Live
      <4>4. Verifies(mail[h]) BY <4>1 DEF Matched
      <4> QED BY <4>1, <4>2, <4>3, <4>4 DEF TypeOK, HandlerTypes, setupVars, Verifies
    <3>7. CASE Register(h)
      <4>1. pc[h] = "register" /\ UNCHANGED mail BY <3>7 DEF Register
      <4>2. Verifies(mail[h]) BY <4>1 DEF Matched
      <4>3. CASE Goto(h, "ignore") /\ UNCHANGED <<src, intents, sid>>
        BY <3>s, <4>1, <4>2, <4>3 DEF TypeOK, HandlerTypes
      <4>4. CASE /\ Goto(h, "mark") /\ UNCHANGED <<src, intents>>
                 /\ \E s \in Source : LiveOf(mail[h].to, mail[h].provider) = {s}
                                      /\ sid' = [sid EXCEPT ![h] = s]
        <5>1. PICK s \in Source : LiveOf(mail[h].to, mail[h].provider) = {s}
                                  /\ sid' = [sid EXCEPT ![h] = s]
          BY <4>4
        <5>2. Live(s) /\ s.alias = mail[h].to /\ s.provider = mail[h].provider
          BY <5>1 DEF LiveOf, SourcesOf
        <5> QED BY <4>1, <4>2, <4>4, <5>1, <5>2 DEF TypeOK, HandlerTypes, Live, Verifies
      <4>5. CASE /\ Goto(h, "mark")
                 /\ \E s \in SourcesOf(mail[h].to, mail[h].provider) :
                      src' = [src EXCEPT ![s] = "pending"] /\ sid' = [sid EXCEPT ![h] = s]
        <5>1. PICK s \in SourcesOf(mail[h].to, mail[h].provider) :
                      src' = [src EXCEPT ![s] = "pending"] /\ sid' = [sid EXCEPT ![h] = s]
          BY <4>5
        <5>2. s \in Source /\ s.alias = mail[h].to /\ s.provider = mail[h].provider
          BY <5>1 DEF SourcesOf
        <5>3. src'[s] = "pending" BY <5>1, <5>2 DEF TypeOK, SetupTypes
        <5> QED BY <4>1, <4>2, <4>5, <5>1, <5>2, <5>3 DEF TypeOK, HandlerTypes, Verifies
      <4> QED BY <3>7, <4>3, <4>4, <4>5 DEF Register
    <3>8. CASE MarkVerification(h)
      BY <3>8, <3>s DEF MarkVerification, TypeOK, HandlerTypes
    <3>9. CASE Ingest(h)
      <4>1. CASE Goto(h, "state") /\ UNCHANGED <<mail, sid>>
        BY <3>9, <3>s, <4>1 DEF Ingest, TypeOK, HandlerTypes
      <4> QED BY <3>9, <3>l, <4>1 DEF Ingest
    <3>10. CASE UpdateState(h)
      <4>1. CASE Verifies(mail[h]) /\ Goto(h, "inbox") /\ UNCHANGED <<mail, sid>>
        BY <3>10, <3>s, <4>1 DEF UpdateState, TypeOK, HandlerTypes, Verifies
      <4> QED BY <3>10, <3>l, <4>1 DEF UpdateState
    <3> QED BY <1>3, <3>1, <3>2, <3>3, <3>4, <3>5, <3>6, <3>7, <3>8, <3>9, <3>10 DEF Handle
  <2> QED BY <2>1, <2>2 DEF Matched
<1> QED BY <1>1, <1>2, <1>3 DEF Next

(* Whoever is past the insert stays alone: an event is never taken back. *)
LEMMA ExclusiveStep ==
  ASSUME TypeOK, Exclusive, [Next]_vars
  PROVE  Exclusive'
<1>1. CASE UNCHANGED vars BY <1>1 DEF vars, handlerVars, Exclusive, Past
<1>2. CASE Settings BY <1>2, SettingsLeaveHandlers DEF Exclusive, Past
<1>3. ASSUME NEW h \in Handlers, Handle(h) \/ \E m \in Mails : Resolve(h, m)
      PROVE  Exclusive'
  <2>1. \A k \in Handlers \ {h} : pc'[k] = pc[k] /\ mail'[k] = mail[k]
    BY <1>3, HandlerMovesAlone
  <2>2. \A m \in Mails : event[m] # "none" => event'[m] # "none"
    BY <1>3 DEF TypeOK, HandlerTypes, Handle, Resolve, CompleteTest, MatchSource, InsertEvent,
                Ignore, Rematch, Register, MarkVerification, MarkIgnored, Ingest, UpdateState,
                CreateVerification, HandlerFails
  <2>3. \A k \in Handlers : Past(k) => mail[k] \in Mails
    BY WorksOnMail DEF Past, Work
  <2>4. CASE Past(h)' => Past(h) /\ mail'[h] = mail[h]
    BY <2>1, <2>2, <2>3, <2>4 DEF Exclusive, Past
  <2>5. CASE InsertEvent(h)
    <3>1. CASE /\ IsNew(mail[h]) /\ event' = [event EXCEPT ![mail[h]] = "received"]
               /\ UNCHANGED mail
      <4>1. mail[h] \in Mails BY <2>5, WorksOnMail DEF InsertEvent, Work
      <4>2. \A k \in Handlers \ {h} : Past(k)' => Past(k) /\ mail'[k] # mail[h]
        BY <2>1, <3>1 DEF Past, Exclusive, IsNew
      <4>3. event'[mail[h]] = "received" BY <3>1, <4>1 DEF TypeOK, HandlerTypes
      <4> QED BY <2>1, <2>2, <2>3, <3>1, <4>2, <4>3 DEF Exclusive
    <3>2. CASE Leave(h)
      <4>1. ~Past(h)' BY <3>2 DEF Leave, Goto, Past, TypeOK, HandlerTypes
      <4> QED BY <2>4, <4>1
    <3> QED BY <2>5, <3>1, <3>2 DEF InsertEvent
  <2>6. CASE ~InsertEvent(h)
    <3>1. Past(h)' => Past(h) /\ mail'[h] = mail[h]
      BY <1>3, <2>6 DEF Past, TypeOK, HandlerTypes, Handle, Resolve, CompleteTest, MatchSource,
                        Ignore, Rematch, Register, MarkVerification, Ingest, UpdateState,
                        CreateVerification, HandlerFails, Leave, Goto
    <3> QED BY <2>4, <3>1
  <2> QED BY <2>5, <2>6
<1> QED BY <1>1, <1>2, <1>3 DEF Next

-----------------------------------------------------------------------------
(* What is live, and the connection that shows it. *)

Tree == LiveTree /\ ConnectionFollows

(* A source under an alias in use may change its status, if it was live. *)
LEMMA TreeKept ==
  ASSUME SetupTypes, Tree, UNCHANGED <<alias, conn>>,
         \A s \in Source : Live(s)' => Live(s),
         \A i \in intents' : Alive(i.alias)
  PROVE  Tree'
BY DEF SetupTypes, Tree, LiveTree, ConnectionFollows, Alive

LEMMA RotateTree ==
  ASSUME SetupTypes, Tree, NEW a \in Aliases, Rotate(a)
  PROVE  Tree'
<1>1. /\ alias' = [b \in Aliases |-> IF b = a THEN "pending"
                                     ELSE IF Alive(b) THEN "revoked" ELSE alias[b]]
      /\ conn' = "pending"
  BY DEF Rotate
<1>2. \A b \in Aliases : Alive(b)' <=> b = a BY <1>1 DEF Alive
<1>3. \A s \in Source : s.alias \in Aliases BY SourceParts
<1>4. (\A s \in Source : ~Live(s)') /\ intents' = {}
  <2>1. CASE \E b \in Aliases : Alive(b) /\ Withdraw(b)
    <3>1. PICK b \in Aliases : Alive(b) /\ Withdraw(b) BY <2>1
    <3>2. \A s \in Source : Live(s) => s \in SourcesUnder(b)
      BY <3>1, <1>3 DEF Tree, LiveTree, SourcesUnder
    <3>3. \A i \in intents : i.alias = b BY <3>1 DEF Tree, LiveTree, SetupTypes
    <3> QED BY <3>1, <3>2, <3>3 DEF Withdraw, Live
  <2>2. CASE (\A b \in Aliases : ~Alive(b)) /\ UNCHANGED <<src, test, inbox, intents>>
    <3>1. \A i \in intents : FALSE BY <2>2 DEF Tree, LiveTree, SetupTypes
    <3> QED BY <2>2, <1>3, <3>1 DEF Tree, LiveTree, Live
  <2> QED BY <2>1, <2>2 DEF Rotate
<1>5. LiveTree' BY <1>2, <1>4 DEF LiveTree
<1>6. ConnectionFollows' BY <1>1, <1>2 DEF ConnectionFollows
<1> QED BY <1>5, <1>6 DEF Tree

LEMMA RevokeAliasTree ==
  ASSUME SetupTypes, Tree, NEW a \in Aliases, RevokeAlias(a)
  PROVE  Tree'
<1>1. alias' = [alias EXCEPT ![a] = "revoked"] /\ conn' = "revoked" /\ Withdraw(a) /\ Alive(a)
  BY DEF RevokeAlias
<1>2. \A b \in Aliases : ~Alive(b)' BY <1>1 DEF Alive, Tree, LiveTree, SetupTypes
<1>3. \A s \in Source : s.alias \in Aliases BY SourceParts
<1>4. \A s \in Source : Live(s) => s \in SourcesUnder(a)
  BY <1>1, <1>3 DEF Tree, LiveTree, SourcesUnder
<1>5. \A s \in Source : ~Live(s)' BY <1>1, <1>4 DEF Withdraw, Live
<1>6. intents' = {} BY <1>1 DEF Withdraw, Tree, LiveTree, SetupTypes
<1>7. LiveTree' BY <1>2, <1>5, <1>6 DEF LiveTree
<1>8. ConnectionFollows' BY <1>1, <1>2 DEF ConnectionFollows
<1> QED BY <1>7, <1>8 DEF Tree

LEMMA CompleteTestTree ==
  ASSUME TypeOK, Matched, Tree, NEW h \in Handlers, CompleteTest(h)
  PROVE  Tree'
<1> DEFINE m == mail[h]  t == m.test  s == t.of
<1>1. m \in Mails /\ m.kind = "test" BY WorksOnMail DEF CompleteTest, Work, Matched
<1>2. m.to \in Aliases /\ s \in Source BY <1>1, MailParts, TestParts
<1>3. CASE UNCHANGED setupVars
  BY <1>3, TreeKept DEF setupVars, Live, TypeOK, Tree, LiveTree
<1>4. CASE /\ s.alias = m.to /\ s.provider = m.provider /\ Live(s) /\ Alive(m.to)
           /\ src' = [src EXCEPT ![s] = "active"]
           /\ alias' = [alias EXCEPT ![m.to] = "active"]
           /\ conn' = "active"
           /\ UNCHANGED intents
  <2>1. \A r \in Source : Live(r)' <=> Live(r) BY <1>2, <1>4 DEF Live, TypeOK, SetupTypes
  <2>2. \A b \in Aliases : Alive(b)' <=> Alive(b) BY <1>2, <1>4 DEF Alive, TypeOK, SetupTypes
  <2>3. \A i \in intents : i.alias \in Aliases BY DEF TypeOK, SetupTypes
  <2>4. LiveTree' BY <1>4, <2>1, <2>2, <2>3, SourceParts DEF Tree, LiveTree
  <2>5. \A b \in Aliases : Alive(b)' => b = m.to
    BY <1>2, <1>4, <2>2 DEF Tree, LiveTree
  <2>6. ConnectionFollows'
    BY <1>2, <1>4, <2>2, <2>5 DEF ConnectionFollows, TypeOK, SetupTypes
  <2> QED BY <2>4, <2>6 DEF Tree
<1> QED BY <1>3, <1>4 DEF CompleteTest

LEMMA RegisterTree ==
  ASSUME TypeOK, Tree, NEW h \in Handlers, Register(h)
  PROVE  Tree'
<1> DEFINE a == mail[h].to  p == mail[h].provider
<1>1. UNCHANGED <<alias, conn>> BY DEF Register
<1>2. CASE UNCHANGED <<src, intents>>
  BY <1>1, <1>2, TreeKept DEF Live, TypeOK, Tree, LiveTree
<1>3. CASE /\ Alive(a) /\ LiveOf(a, p) = {}
           /\ \E i \in intents : intents' = intents \ {i}
           /\ \E s \in SourcesOf(a, p) : src' = [src EXCEPT ![s] = "pending"]
  <2>1. PICK s \in SourcesOf(a, p) : src' = [src EXCEPT ![s] = "pending"] BY <1>3
  <2>2. s \in Source /\ s.alias = a /\ s.provider = p BY <2>1 DEF SourcesOf
  <2>3. \A r \in Source : Live(r)' => Live(r) \/ r = s
    BY <2>1, <2>2 DEF Live, TypeOK, SetupTypes
  <2>4. \A r \in Source : Live(r) => ~(r.alias = a /\ r.provider = p)
    BY <1>3 DEF LiveOf, SourcesOf
  <2>5. intents' \subseteq intents BY <1>3
  <2>6. \A b : Alive(b)' <=> Alive(b) BY <1>1 DEF Alive
  <2>7. LiveTree'
    <3>1. \A b, c \in Aliases : Alive(b)' /\ Alive(c)' => b = c
      BY <2>6 DEF Tree, LiveTree
    <3>2. \A r \in Source : Live(r)' => Alive(r.alias)'
      BY <1>3, <2>2, <2>3, <2>6 DEF Tree, LiveTree
    <3>3. \A q, r \in Source : Live(q)' /\ Live(r)' /\ q.alias = r.alias
                               /\ q.provider = r.provider => q = r
      BY <2>2, <2>3, <2>4 DEF Tree, LiveTree
    <3>4. \A i \in intents' : Alive(i.alias)' BY <2>5, <2>6 DEF Tree, LiveTree
    <3> QED BY <3>1, <3>2, <3>3, <3>4 DEF LiveTree
  <2>8. ConnectionFollows' BY <1>1, <2>6 DEF Tree, ConnectionFollows
  <2> QED BY <2>7, <2>8 DEF Tree
<1> QED BY <1>2, <1>3 DEF Register

LEMMA UpdateStateTree ==
  ASSUME TypeOK, Matched, Tree, NEW h \in Handlers, UpdateState(h)
  PROVE  Tree'
<1> DEFINE a == mail[h].to  s == sid[h]  st == NewStatus(mail[h])
<1>1. a \in Aliases /\ s \in Source
  BY WorksOnMail, MailParts DEF UpdateState, Work, TypeOK, HandlerTypes
<1>2. s.alias = a /\ src[s] # "none" BY <1>1 DEF Matched
<1>3. st \in {"pending", "active"} BY DEF NewStatus
<1>4. State(a, s, st) /\ UNCHANGED intents BY DEF UpdateState
<1>5. CASE ~Alive(a)
  <2>1. UNCHANGED <<alias, src, conn>> BY <1>4, <1>5 DEF State
  <2> QED BY <1>4, <2>1, TreeKept DEF Live, TypeOK, Tree, LiveTree
<1>6. CASE Alive(a)
  <2>1. /\ alias' = IF alias[a] = "active" /\ st = "pending"
                      THEN alias ELSE [alias EXCEPT ![a] = st]
        /\ src' = IF src[s] # "revoked" THEN [src EXCEPT ![s] = st] ELSE src
        /\ conn' = alias'[a]
    BY <1>4, <1>6 DEF State, Updatable
  <2>2. \A r \in Source : Live(r)' <=> Live(r)
    BY <1>1, <1>2, <1>3, <2>1 DEF Live, TypeOK, SetupTypes
  <2>3. \A b \in Aliases : Alive(b)' <=> Alive(b)
    BY <1>1, <1>3, <1>6, <2>1 DEF Alive, TypeOK, SetupTypes
  <2>4. \A i \in intents : i.alias \in Aliases BY DEF TypeOK, SetupTypes
  <2>5. LiveTree' BY <1>4, <2>2, <2>3, <2>4, SourceParts DEF Tree, LiveTree
  <2>6. \A b \in Aliases : Alive(b)' => b = a BY <1>1, <1>6, <2>3 DEF Tree, LiveTree
  <2>7. ConnectionFollows' BY <1>1, <1>6, <2>1, <2>3, <2>6 DEF ConnectionFollows
  <2> QED BY <2>5, <2>7 DEF Tree
<1> QED BY <1>5, <1>6

LEMMA TreeStep ==
  ASSUME TypeOK, Matched, Tree, [Next]_vars
  PROVE  Tree'
<1> USE DEF TypeOK
<1>0. ASSUME UNCHANGED treeVars PROVE Tree'
  BY <1>0, TreeKept DEF treeVars, Live, Tree, LiveTree
<1>1. ASSUME NEW a \in Aliases, Rotate(a) \/ RevokeAlias(a) PROVE Tree'
  BY <1>1, RotateTree, RevokeAliasTree
<1>2. ASSUME NEW a \in Aliases, NEW p \in Providers, SelectProvider(a, p) PROVE Tree'
  BY <1>2, TreeKept DEF SelectProvider, Live, Tree, LiveTree
<1>3. ASSUME NEW i \in intents, IntentExpires(i) PROVE Tree'
  BY <1>3, TreeKept DEF IntentExpires, Live, Tree, LiveTree
<1>4. ASSUME NEW s \in Source, RevokeSource(s) PROVE Tree'
  BY <1>4, TreeKept DEF RevokeSource, Live, SetupTypes, Tree, LiveTree
<1>5. ASSUME NEW h \in Handlers, CompleteTest(h) \/ Register(h) \/ UpdateState(h) PROVE Tree'
  BY <1>5, CompleteTestTree, RegisterTree, UpdateStateTree
<1>6. CASE UNCHANGED vars BY <1>0, <1>6 DEF vars, setupVars, treeVars
<1>7. \A t \in opening : t \in Test BY DEF SetupTypes
<1> QED
  BY <1>0, <1>1, <1>2, <1>3, <1>4, <1>5, <1>6, <1>7, OthersLeaveTree DEF Next, Settings, Handle

-----------------------------------------------------------------------------
(* Mails that nobody works on any more. *)

(* Only a failure abandons a mail, and it abandons one. *)
LEMMA OneIsAbandoned ==
  ASSUME TypeOK, NEW h \in Handlers, Handle(h) \/ \E m \in Mails : Resolve(h, m)
  PROVE  \/ Abandoned' \subseteq Abandoned /\ faults' = faults
         \/ Abandoned' \subseteq Abandoned \cup {mail[h]} /\ faults' = faults + 1
<1>1. \A k \in Handlers \ {h} : pc'[k] = pc[k] /\ mail'[k] = mail[k]
  BY HandlerMovesAlone
<1>2. \A k \in Handlers : pc[k] # "idle" => mail[k] \in Mails BY WorksOnMail DEF Work
<1>3. ASSUME \A m \in Mails : event'[m] = "received" => event[m] = "received",
             Owes(h) /\ event'[mail[h]] = "received" => Owes(h)' /\ mail'[h] = mail[h]
      PROVE  Abandoned' \subseteq Abandoned
  BY <1>1, <1>3 DEF Abandoned, Owes
<1>4. ASSUME UNCHANGED event
      PROVE  Abandoned' \subseteq Abandoned \cup {mail[h]}
  BY <1>1, <1>4 DEF Abandoned, Owes
<1>5. CASE HandlerFails(h) BY <1>4, <1>5 DEF HandlerFails
<1>6. CASE InsertEvent(h)
  <2>1. ~Owes(h) /\ mail[h] \in Mails /\ faults' = faults BY <1>2, <1>6 DEF InsertEvent, Owes
  <2>2. CASE /\ event' = [event EXCEPT ![mail[h]] = "received"]
             /\ Goto(h, AfterInsert(mail[h], sid[h])) /\ UNCHANGED mail
    <3>1. Owes(h)' BY <2>2 DEF Owes, Goto, AfterInsert, TypeOK, HandlerTypes
    <3>2. \A m \in Mails : m # mail[h] => event'[m] = event[m]
      BY <2>2 DEF TypeOK, HandlerTypes
    <3> QED BY <1>1, <2>1, <2>2, <3>1, <3>2 DEF Abandoned, Owes
  <2>3. CASE UNCHANGED event BY <1>3, <2>1, <2>3
  <2> QED BY <1>6, <2>1, <2>2, <2>3 DEF InsertEvent
<1>7. CASE Ignore(h) \/ MarkVerification(h)
  <2>1. mail[h] \in Mails /\ MarkIgnored(mail[h]) BY <1>2, <1>7 DEF Ignore, MarkVerification
  <2>2. CASE event' = [event EXCEPT ![mail[h]] = "ignored"] /\ UNCHANGED faults
    BY <1>3, <2>1, <2>2 DEF TypeOK, HandlerTypes
  <2> QED BY <1>4, <2>1, <2>2 DEF MarkIgnored
<1>8. CASE Ingest(h)
  <2>1. mail[h] \in Mails /\ faults' = faults /\ event' = [event EXCEPT ![mail[h]] = "parsed"]
    BY <1>2, <1>8 DEF Ingest
  <2> QED BY <1>3, <2>1 DEF TypeOK, HandlerTypes
<1>9. CASE UpdateState(h) \/ CreateVerification(h)
  <2>1. event' = event /\ faults' = faults /\ ~Owes(h)
    BY <1>9 DEF UpdateState, CreateVerification, Owes
  <2> QED BY <1>3, <2>1
<1>10. CASE \/ \E m \in Mails : Resolve(h, m)
            \/ CompleteTest(h) \/ MatchSource(h) \/ Rematch(h) \/ Register(h)
  <2>1. event' = event /\ faults' = faults
    BY <1>10 DEF Resolve, CompleteTest, MatchSource, Rematch, Register
  <2>2. Owes(h) => Owes(h)' /\ mail'[h] = mail[h]
    BY <1>10 DEF Owes, Work, Resolve, CompleteTest, MatchSource, Rematch, Register, Goto, TypeOK,
                 HandlerTypes
  <2> QED BY <1>3, <2>1, <2>2
<1> QED BY <1>5, <1>6, <1>7, <1>8, <1>9, <1>10 DEF Handle

LEMMA AbandonedStep ==
  ASSUME TypeOK, Cardinality(Abandoned) <= faults, [Next]_vars
  PROVE  Cardinality(Abandoned') <= faults'
<1>1. IsFiniteSet(Abandoned) /\ Cardinality(Abandoned) \in Nat /\ faults \in Nat
  <2>1. Abandoned \subseteq Mails BY DEF Abandoned
  <2>2. IsFiniteSet(Abandoned) BY <2>1, RelayAssumption, FS_Subset
  <2> QED BY <2>2, FS_CardinalityType, RelayAssumption DEF TypeOK, HandlerTypes
<1>2. CASE Abandoned' \subseteq Abandoned /\ faults' = faults
  <2>1. Cardinality(Abandoned') <= Cardinality(Abandoned) /\ Cardinality(Abandoned') \in Nat
    BY <1>1, <1>2, FS_Subset, FS_CardinalityType
  <2> QED BY <1>1, <1>2, <2>1
<1>3. CASE \E m : Abandoned' \subseteq Abandoned \cup {m} /\ faults' = faults + 1
  <2>1. PICK m : Abandoned' \subseteq Abandoned \cup {m} BY <1>3
  <2>2. /\ IsFiniteSet(Abandoned \cup {m})
        /\ \/ Cardinality(Abandoned \cup {m}) = Cardinality(Abandoned)
           \/ Cardinality(Abandoned \cup {m}) = Cardinality(Abandoned) + 1
    BY <1>1, FS_AddElement
  <2>3. Cardinality(Abandoned') <= Cardinality(Abandoned \cup {m})
        /\ Cardinality(Abandoned') \in Nat
    BY <2>1, <2>2, FS_Subset, FS_CardinalityType
  <2> QED BY <1>1, <1>3, <2>2, <2>3
<1>4. CASE UNCHANGED vars BY <1>2, <1>4 DEF vars, handlerVars, Abandoned, Owes
<1>5. CASE Settings BY <1>2, <1>5, SettingsLeaveHandlers DEF Abandoned, Owes
<1>6. ASSUME NEW h \in Handlers, Handle(h) \/ \E m \in Mails : Resolve(h, m)
      PROVE  Cardinality(Abandoned') <= faults'
  BY <1>2, <1>3, <1>6, OneIsAbandoned
<1> QED BY <1>4, <1>5, <1>6 DEF Next

-----------------------------------------------------------------------------
(* The theorems. *)

RelayInv ==
  TypeOK /\ Matched /\ Exclusive /\ Tree /\ Cardinality(Abandoned) <= faults

LEMMA InitInv == Init => RelayInv
<1> SUFFICES ASSUME Init PROVE RelayInv OBVIOUS
<1> USE RelayAssumption DEF Init
<1>1. SetupTypes BY DEF SetupTypes
<1>2. [status |-> "none", source |-> NoSource] \in Verification BY DEF Verification
<1>3. HandlerTypes BY <1>2 DEF HandlerTypes, Work
<1>4. Matched /\ Exclusive BY DEF Matched, Exclusive, Past, Work
<1>5. Tree BY SourceParts DEF Tree, LiveTree, ConnectionFollows, Alive, Live
<1>6. Abandoned = {} BY DEF Abandoned
<1>7. Cardinality(Abandoned) <= faults BY <1>6, FS_EmptySet
<1> QED BY <1>1, <1>3, <1>4, <1>5, <1>7 DEF RelayInv, TypeOK

LEMMA StepInv == RelayInv /\ [Next]_vars => RelayInv'
<1> SUFFICES ASSUME RelayInv, [Next]_vars PROVE RelayInv' OBVIOUS
<1> USE DEF RelayInv
<1>1. ASSUME UNCHANGED vars PROVE TypeOK'
  BY <1>1 DEF vars, setupVars, handlerVars, TypeOK, SetupTypes, HandlerTypes, Work
<1>2. ASSUME Settings PROVE TypeOK' BY <1>2, SettingsTypes
<1>3. ASSUME NEW h \in Handlers, Handle(h) \/ \E m \in Mails : Resolve(h, m) PROVE TypeOK'
  BY <1>3, HandleTypes
<1>4. TypeOK' BY <1>1, <1>2, <1>3 DEF Next
<1> QED BY <1>4, MatchedStep, ExclusiveStep, TreeStep, AbandonedStep

LEMMA Invariance == Spec => []RelayInv
BY InitInv, StepInv, PTL DEF Spec

(* email-relay-ingest and email-relay-settings keep their types; no event is marked, no state  *)
(* written and no verification filed but for a source that exists.                             *)
THEOREM RelayTypes == Spec => []TypeOK
<1>1. RelayInv => TypeOK BY DEF RelayInv
<1> QED BY <1>1, Invariance, PTL

(* One alias in use, live sources and setup intents under it alone, one source for each        *)
(* provider, whatever the gateway still has under way when the user rotates or revokes.        *)
THEOREM TreeStaysLive == Spec => []LiveTree
<1>1. RelayInv => LiveTree BY DEF RelayInv, Tree
<1> QED BY <1>1, Invariance, PTL

(* The shared connection row shows the alias in use.                                           *)
THEOREM ConnectionShowsAlias == Spec => []ConnectionFollows
<1>1. RelayInv => ConnectionFollows BY DEF RelayInv, Tree
<1> QED BY <1>1, Invariance, PTL

(* One invocation works on a mail, however often it is delivered, and no more events are left  *)
(* unsettled than invocations or updates failed.                                               *)
THEOREM OneInvocationForEachMail == Spec => []MailHandledOnce
<1>1. RelayInv => MailHandledOnce BY DEF RelayInv, Exclusive, MailHandledOnce
<1> QED BY <1>1, Invariance, PTL

(* No step takes back a revocation or shows a cleared verification again. *)
Stays ==
  /\ \A s \in Source : src[s] = "revoked" => src'[s] = "revoked"
  /\ \A a \in Aliases : alias[a] = "revoked" => alias'[a] = "revoked"
  /\ \A m \in Mails : inbox[m].status = "cleared" => inbox'[m] = inbox[m]

LEMMA StaysStep ==
  ASSUME TypeOK, Matched, [Next]_vars
  PROVE  Stays
<1> USE DEF TypeOK, SetupTypes, HandlerTypes, Stays
<1>0. ASSUME UNCHANGED <<src, alias, inbox>> PROVE Stays BY <1>0
<1>d. ASSUME NEW S, Dismiss(S)
      PROVE  \A m \in Mails : inbox[m].status = "cleared" => inbox'[m] = inbox[m]
  BY <1>d DEF Dismiss, Actionable
<1>w. ASSUME NEW a, Withdraw(a)
      PROVE  /\ \A s \in Source : src[s] = "revoked" => src'[s] = "revoked"
             /\ \A m \in Mails : inbox[m].status = "cleared" => inbox'[m] = inbox[m]
  BY <1>d, <1>w DEF Withdraw, Live
<1>1. ASSUME NEW a \in Aliases, Rotate(a) PROVE Stays
  BY <1>1, <1>w DEF Rotate, Alive
<1>2. ASSUME NEW a \in Aliases, RevokeAlias(a) PROVE Stays BY <1>2, <1>w DEF RevokeAlias
<1>3. ASSUME NEW s \in Source, RevokeSource(s) PROVE Stays BY <1>3, <1>d DEF RevokeSource
<1>4. ASSUME NEW m \in Mails, ClearVerification(m) PROVE Stays
  BY <1>4 DEF ClearVerification, setupVars, Actionable
<1>5. CASE Settings
  BY <1>0, <1>1, <1>2, <1>3, <1>4, <1>5
     DEF Settings, SelectProvider, IntentExpires, BeginTest, EndTest
<1>6. ASSUME NEW h \in Handlers, CompleteTest(h) PROVE Stays
  BY <1>6 DEF CompleteTest, setupVars, Alive, Live, Actionable
<1>7. ASSUME NEW h \in Handlers, Register(h) PROVE Stays
  BY <1>7 DEF Register
<1>8. ASSUME NEW h \in Handlers, UpdateState(h) PROVE Stays
  BY <1>8 DEF UpdateState, State, Updatable, Alive
<1>9. ASSUME NEW h \in Handlers, CreateVerification(h) PROVE Stays
  BY <1>9 DEF CreateVerification, setupVars, Actionable
<1>10. ASSUME NEW h \in Handlers,
              \/ \E m \in Mails : Resolve(h, m)
              \/ MatchSource(h) \/ InsertEvent(h) \/ Ignore(h) \/ Rematch(h)
              \/ MarkVerification(h) \/ Ingest(h) \/ HandlerFails(h)
       PROVE  Stays
  BY <1>0, <1>10 DEF setupVars, Resolve, MatchSource, InsertEvent, Ignore, Rematch,
                     MarkVerification, Ingest, HandlerFails
<1>11. CASE UNCHANGED vars BY <1>0, <1>11 DEF vars, setupVars
<1> QED BY <1>5, <1>6, <1>7, <1>8, <1>9, <1>10, <1>11 DEF Next, Handle

(* What was revoked stays revoked and what was cleared stays cleared, whatever late mail or     *)
(* link test comes.                                                                            *)
THEOREM RevokedStays == Spec => RevocationIsFinal
<1>1. RelayInv /\ [Next]_vars => [Stays]_vars BY StaysStep DEF RelayInv
<1> QED BY <1>1, Invariance, PTL DEF Spec, RevocationIsFinal, Stays

(* The step that activates a source or an alias is one of a mail that proved its path. *)
Proven ==
  /\ \A s \in Source :
       src[s] # "active" /\ src'[s] = "active" =>
         \E h \in Handlers : /\ Work(h) /\ mail[h].proof = "path"
                             /\ mail[h].to = s.alias /\ mail[h].provider = s.provider
  /\ \A a \in Aliases :
       alias[a] # "active" /\ alias'[a] = "active" =>
         \E h \in Handlers : Work(h) /\ mail[h].proof = "path" /\ mail[h].to = a

LEMMA ProvenStep ==
  ASSUME TypeOK, Matched, [Next]_vars
  PROVE  Proven
<1> USE DEF TypeOK, SetupTypes, Proven
<1>0. ASSUME UNCHANGED treeVars PROVE Proven BY <1>0 DEF treeVars
<1>1. CASE UNCHANGED vars BY <1>0, <1>1 DEF vars, setupVars, treeVars
<1>2. CASE Settings
  <2>1. ASSUME NEW a, Withdraw(a)
        PROVE  \A s \in Source : src'[s] = "active" => src[s] = "active"
    BY <2>1 DEF Withdraw
  <2>2. \A s \in Source : src'[s] = "active" => src[s] = "active"
    BY <1>2, <2>1 DEF Settings, setupVars, Rotate, RevokeAlias, RevokeSource, SelectProvider,
                      IntentExpires, BeginTest, EndTest, ClearVerification
  <2>3. \A a \in Aliases : alias'[a] = "active" => alias[a] = "active"
    BY <1>2 DEF Settings, setupVars, Rotate, RevokeAlias, RevokeSource, SelectProvider,
                IntentExpires, BeginTest, EndTest, ClearVerification
  <2> QED BY <2>2, <2>3
<1>3. ASSUME NEW h \in Handlers, CompleteTest(h) PROVE Proven
  <2>1. Work(h) /\ mail[h].proof = "path" BY <1>3 DEF CompleteTest, Matched, Work
  <2>2. CASE UNCHANGED setupVars BY <1>0, <2>2 DEF setupVars, treeVars
  <2>3. ASSUME NEW s, NEW a, s = mail[h].test.of, a = mail[h].to, s.alias = a,
               s.provider = mail[h].provider,
               src' = [src EXCEPT ![s] = "active"], alias' = [alias EXCEPT ![a] = "active"]
        PROVE  Proven
    BY <2>1, <2>3
  <2> QED BY <1>3, <2>2, <2>3 DEF CompleteTest
<1>4. ASSUME NEW h \in Handlers, Register(h) PROVE Proven BY <1>4 DEF Register
<1>5. ASSUME NEW h \in Handlers, UpdateState(h) PROVE Proven
  <2> DEFINE a == mail[h].to  s == sid[h]  st == NewStatus(mail[h])
  <2>1. Work(h) /\ s \in Source BY <1>5 DEF UpdateState, Work, HandlerTypes
  <2>2. s.alias = a /\ s.provider = mail[h].provider
        /\ (st = "active" => mail[h].proof = "path")
    BY <2>1 DEF Matched, NewStatus
  <2>3. State(a, s, st) BY <1>5 DEF UpdateState
  <2>4. (src' = src \/ src' = [src EXCEPT ![s] = st])
        /\ (alias' = alias \/ alias' = [alias EXCEPT ![a] = st])
    BY <2>3 DEF State
  <2>5. st \in {"pending", "active"} BY DEF NewStatus
  <2> HIDE DEF a, s, st
  <2>6. \A r \in Source : src[r] # "active" /\ src'[r] = "active" => r = s /\ st = "active"
    BY <2>1, <2>4, <2>5
  <2>7. \A b \in Aliases : alias[b] # "active" /\ alias'[b] = "active" => b = a /\ st = "active"
    BY <2>4, <2>5
  <2> QED BY <2>1, <2>2, <2>6, <2>7 DEF a, s
<1>6. ASSUME NEW h \in Handlers, ~(CompleteTest(h) \/ Register(h) \/ UpdateState(h)),
             Handle(h) \/ \E m \in Mails : Resolve(h, m)
      PROVE  Proven
  BY <1>0, <1>6, OthersLeaveTree DEF Handle
<1> QED BY <1>1, <1>2, <1>3, <1>4, <1>5, <1>6 DEF Next

(* A source or an alias becomes active only in an invocation whose mail proved its path. *)
THEOREM ActivityIsProven == Spec => ActiveMeansProven
<1>1. RelayInv /\ [Next]_vars => [Proven]_vars BY ProvenStep DEF RelayInv
<1> QED BY <1>1, Invariance, PTL DEF Spec, ActiveMeansProven, Proven

-----------------------------------------------------------------------------
(* The card.  IssuedShown speaks of moments without an issue under way; what is *)
(* inductive says where the address is meanwhile: on the page, or in the one    *)
(* answer that is still to come.                                                *)

RelayState == [alias : Nat, active : BOOLEAN, source : Nat, proven : BOOLEAN, letter : Nat]
Action == Issues \cup {"none", "state", "reload", "revoke", "revoke_source", "select_provider",
  "create_link_test", "mark_verification_opened", "dismiss_verification"}

CardTypes ==
  /\ card \in [view : RelayState, address : Nat, busy : BOOLEAN]
  /\ calling \in [Calls -> [act : Action, id : Nat, at : {"free", "sent", "half", "answered"},
                            read : RelayState]]
  /\ relay \in RelayState
  /\ issued \in Nat /\ mails \in Nat /\ astray \in BOOLEAN

Issuing(c) == calling[c].act \in Issues
Answers(c) == Issuing(c) /\ calling[c].at = "answered"

AddressKept ==
  /\ \A c, d \in Calls : Issuing(c) /\ Issuing(d) => c = d
  /\ \A c \in Calls : Issuing(c) => calling[c].at # "half"
  /\ relay.alias > 1 =>
       /\ \A c \in Calls : Answers(c) => calling[c].read.alias = relay.alias
       /\ (\A c \in Calls : ~Answers(c)) => card.address = relay.alias

CardInv == CardTypes /\ (astray \/ AddressKept)

LEMMA NoRelayType == NoRelay \in RelayState /\ NoRelay.alias = 0
  BY DEF NoRelay, RelayState

LEMMA NoCallType ==
  /\ NoCall \in [act : Action, id : Nat, at : {"free", "sent", "half", "answered"}, read : RelayState]
  /\ NoCall.act = "none" /\ "none" \notin Issues
  BY NoRelayType DEF NoCall, Action, Issues

\* what the page offers names an action, and a source or a verification by its number
LEMMA OfferTypes ==
  ASSUME CardTypes, NEW o \in Offers PROVE o[1] \in Action /\ o[2] \in Nat
  <1>1. card.view.source \in Nat /\ card.view.letter \in Nat
    BY DEF CardTypes, RelayState
  <1> QED
    BY <1>1 DEF Offers, Action, Issues

LEMMA FailedTypes ==
  ASSUME CardTypes, NEW c \in Calls, Failed(c)
  PROVE  /\ card' \in [view : RelayState, address : Nat, busy : BOOLEAN]
         /\ card'.address = card.address
         /\ calling' = [calling EXCEPT ![c] = NoCall]
  BY DEF Failed, CardTypes

\* One call changes, and whatever else a step does not touch keeps its type.
LEMMA OneCallTypes ==
  ASSUME CardTypes, NEW c \in Calls, NEW call, calling' = [calling EXCEPT ![c] = call],
         call \in [act : Action, id : Nat, at : {"free", "sent", "half", "answered"}, read : RelayState],
         card' \in [view : RelayState, address : Nat, busy : BOOLEAN],
         relay' \in RelayState, issued' \in Nat, mails' \in Nat, astray' \in BOOLEAN
  PROVE  CardTypes'
  BY DEF CardTypes

-----------------------------------------------------------------------------
\* A step that ends, begins or moves a call which is no issue, and keeps address and alias.
LEMMA QuietStep ==
  ASSUME CardTypes, AddressKept, relay'.alias = relay.alias \/ relay'.alias = 0,
         card'.address = card.address,
         \A d \in Calls : Issuing(d)' => calling'[d] = calling[d],
         \A d \in Calls : Answers(d) => Answers(d)'
  PROVE  AddressKept'
  <1>1. \A d \in Calls : Issuing(d)' => Issuing(d)
    BY DEF Issuing
  <1>2. \A d \in Calls : Answers(d)' => Answers(d) /\ calling'[d].read.alias = calling[d].read.alias
    BY DEF Answers, Issuing
  <1> QED
    BY <1>1, <1>2 DEF AddressKept

LEMMA PageTypes ==
  ASSUME CardTypes, NEW c \in Calls,
         \/ Refreshes(c) \/ (\E o \in Offers : Acts(c, o))
         \/ Loaded(c) \/ Issued(c) \/ Acted(c)
  PROVE  CardTypes'
  <1> DEFINE Call == [act : Action, id : Nat, at : {"free", "sent", "half", "answered"}, read : RelayState]
             Page == [view : RelayState, address : Nat, busy : BOOLEAN]
  <1>1. CASE Refreshes(c)
    <2>1. [NoCall EXCEPT !.act = "state", !.at = "sent"] \in Call
      BY NoCallType DEF Action
    <2> QED
      BY <1>1, <2>1, OneCallTypes DEF Refreshes, CardTypes
  <1>2. ASSUME NEW o \in Offers, Acts(c, o) PROVE CardTypes'
    <2>1. [NoCall EXCEPT !.act = o[1], !.id = o[2], !.at = "sent"] \in Call
      BY NoCallType, OfferTypes
    <2>2. [card EXCEPT !.busy = TRUE] \in Page
      BY DEF CardTypes
    <2>3. astray' \in BOOLEAN
      BY <1>2 DEF Acts
    <2> QED
      BY <1>2, <2>1, <2>2, <2>3, OneCallTypes DEF Acts, CardTypes
  <1>3. CASE Loaded(c)
    <2>1. card' \in Page
      BY <1>3 DEF Loaded, Keeps, CardTypes
    <2> QED
      BY <1>3, <2>1, NoCallType, OneCallTypes DEF Loaded, CardTypes
  <1>4. CASE Issued(c)
    <2>1. /\ calling[c].read \in RelayState /\ card.view.letter \in Nat
      BY DEF CardTypes, RelayState
    <2>2. card' \in Page
      BY <1>4, <2>1 DEF Issued, RelayState
    <2> QED
      BY <1>4, <2>2, NoCallType, OneCallTypes DEF Issued, CardTypes
  <1>5. CASE Acted(c)
    <2>1. [NoCall EXCEPT !.act = "reload", !.at = "sent"] \in Call
      BY NoCallType DEF Action
    <2> QED
      BY <1>5, <2>1, OneCallTypes DEF Acted, CardTypes
  <1> QED
    BY <1>1, <1>2, <1>3, <1>4, <1>5

LEMMA ServerTypes ==
  ASSUME CardTypes, NEW c \in Calls,
         \/ IssueAlias(c) \/ RevokesAll(c) \/ RevokesSource(c) \/ UpdatesVerification(c)
         \/ Prepares(c) \/ ReadsAlias(c) \/ ReadsSources(c) \/ Troubled(c)
  PROVE  CardTypes'
  <1> DEFINE Call == [act : Action, id : Nat, at : {"free", "sent", "half", "answered"}, read : RelayState]
  <1>0. /\ calling[c] \in Call
        /\ \A place \in {"free", "sent", "half", "answered"} :
             [calling EXCEPT ![c].at = place] = [calling EXCEPT ![c] = [calling[c] EXCEPT !.at = place]]
        /\ [calling[c] EXCEPT !.at = "answered"] \in Call
    BY DEF CardTypes
  <1>1. CASE IssueAlias(c)
    <2>1. [NoRelay EXCEPT !.alias = issued + 1] \in RelayState
      BY NoRelayType DEF RelayState, CardTypes
    <2>2. calling' = [calling EXCEPT ![c] =
                        [calling[c] EXCEPT !.at = "answered", !.read = [NoRelay EXCEPT !.alias = issued + 1]]]
      BY <1>1 DEF IssueAlias, CardTypes
    <2>3. [calling[c] EXCEPT !.at = "answered", !.read = [NoRelay EXCEPT !.alias = issued + 1]] \in Call
      BY <1>0, <2>1
    <2> QED
      BY <1>1, <2>1, <2>2, <2>3, OneCallTypes DEF IssueAlias, CardTypes
  <1>2. CASE RevokesAll(c)
    BY <1>0, <1>2, NoRelayType, OneCallTypes DEF RevokesAll, Moves, CardTypes
  <1>3. CASE RevokesSource(c)
    <2>1. [relay EXCEPT !.source = 0, !.proven = FALSE, !.letter = 0] \in RelayState
      BY DEF CardTypes, RelayState
    <2>2. CASE Failed(c) /\ relay' = relay
      BY <1>3, <2>2, FailedTypes, NoCallType, OneCallTypes DEF RevokesSource, CardTypes
    <2>3. CASE /\ Moves(c, "answered") /\ card' = card
               /\ relay' = [relay EXCEPT !.source = 0, !.proven = FALSE, !.letter = 0]
      BY <1>0, <1>3, <2>1, <2>3, OneCallTypes DEF RevokesSource, Moves, CardTypes
    <2> QED
      BY <1>3, <2>2, <2>3 DEF RevokesSource
  <1>4. CASE UpdatesVerification(c)
    <2>1. [relay EXCEPT !.letter = 0] \in RelayState
      BY DEF CardTypes, RelayState
    <2>2. CASE Failed(c) /\ relay' = relay
      BY <1>4, <2>2, FailedTypes, NoCallType, OneCallTypes DEF UpdatesVerification, CardTypes
    <2>3. CASE /\ Moves(c, "answered") /\ card' = card
               /\ relay' = relay \/ relay' = [relay EXCEPT !.letter = 0]
      BY <1>0, <1>4, <2>1, <2>3, OneCallTypes DEF UpdatesVerification, Moves, CardTypes
    <2> QED
      BY <1>4, <2>2, <2>3 DEF UpdatesVerification
  <1>5. CASE Prepares(c)
    <2>1. CASE Failed(c)
      BY <1>5, <2>1, FailedTypes, NoCallType, OneCallTypes DEF Prepares, CardTypes
    <2>2. CASE Moves(c, "answered") /\ card' = card
      BY <1>0, <1>5, <2>2, OneCallTypes DEF Prepares, Moves, CardTypes
    <2> QED
      BY <1>5, <2>1, <2>2 DEF Prepares
  <1>6. CASE ReadsAlias(c)
    <2> DEFINE read == [NoRelay EXCEPT !.alias = relay.alias, !.active = relay.active]
    <2>1. read \in RelayState
      BY NoRelayType DEF RelayState, CardTypes
    <2> HIDE DEF read
    <2>2. calling' = [calling EXCEPT ![c] = [calling[c] EXCEPT !.at = "half", !.read = read]]
      BY <1>6 DEF ReadsAlias, CardTypes, read
    <2>3. [calling[c] EXCEPT !.at = "half", !.read = read] \in Call
      BY <1>0, <2>1
    <2> QED
      BY <1>6, <2>2, <2>3, OneCallTypes DEF ReadsAlias, CardTypes
  <1>7. CASE ReadsSources(c)
    <2> DEFINE read == [relay EXCEPT !.alias = calling[c].read.alias, !.active = calling[c].read.active]
    <2>1. read \in RelayState
      BY DEF RelayState, CardTypes
    <2> HIDE DEF read
    <2>2. calling' = [calling EXCEPT ![c] = [calling[c] EXCEPT !.at = "answered", !.read = read]]
      BY <1>7 DEF ReadsSources, CardTypes, read
    <2>3. [calling[c] EXCEPT !.at = "answered", !.read = read] \in Call
      BY <1>0, <2>1
    <2> QED
      BY <1>7, <2>2, <2>3, OneCallTypes DEF ReadsSources, CardTypes
  <1>8. CASE Troubled(c)
    <2>1. astray' \in BOOLEAN /\ Failed(c) /\ UNCHANGED <<relay, issued, mails>>
      BY <1>8 DEF Troubled
    <2> QED
      BY <2>1, FailedTypes, NoCallType, OneCallTypes DEF CardTypes
  <1> QED
    BY <1>1, <1>2, <1>3, <1>4, <1>5, <1>6, <1>7, <1>8

LEMMA WorldTypes ==
  ASSUME CardTypes, ConfirmationComes \/ SourceProven
  PROVE  CardTypes' /\ relay'.alias = relay.alias
  <1>1. CASE ConfirmationComes
    <2>0. relay \in RelayState /\ relay.source \in Nat /\ mails + 1 \in Nat
      BY DEF CardTypes, RelayState
    <2>1. /\ [relay EXCEPT !.letter = relay.source] \in RelayState
          /\ [relay EXCEPT !.source = mails + 1, !.letter = mails + 1] \in RelayState
      BY <2>0 DEF RelayState
    <2>2. relay' \in RelayState /\ relay'.alias = relay.alias
      BY <1>1, <2>1 DEF ConfirmationComes, CardTypes, RelayState
    <2> QED
      BY <1>1, <2>2 DEF ConfirmationComes, CardTypes
  <1>2. CASE SourceProven
    BY <1>2 DEF SourceProven, CardTypes, RelayState
  <1> QED
    BY <1>1, <1>2

-----------------------------------------------------------------------------
LEMMA PageKeepsAddress ==
  ASSUME CardTypes, astray \/ AddressKept, NEW c \in Calls,
         \/ Refreshes(c) \/ (\E o \in Offers : Acts(c, o))
         \/ Loaded(c) \/ Issued(c) \/ Acted(c)
  PROVE  astray' \/ AddressKept'
  <1>1. CASE astray
    BY <1>1 DEF Refreshes, Acts, Loaded, Issued, Acted
  <1>2. CASE ~astray
    <2>0. AddressKept
      BY <1>2
    <2>1. CASE Refreshes(c)
      BY <2>0, <2>1, QuietStep DEF Refreshes, NoCall, Issuing, Answers, Issues, CardTypes
    <2>2. ASSUME NEW o \in Offers, Acts(c, o), ~astray' PROVE AddressKept'
      <3>1. /\ calling' = [calling EXCEPT ![c] = [NoCall EXCEPT !.act = o[1], !.id = o[2], !.at = "sent"]]
            /\ relay' = relay /\ card'.address = card.address /\ calling[c].at = "free"
            /\ ~(o[1] \in Issues /\ \E d \in Calls : calling[d].act \in Issues)
        BY <2>2 DEF Acts, CardTypes
      <3>2. /\ calling'[c].act = o[1] /\ calling'[c].at = "sent"
            /\ \A d \in Calls \ {c} : calling'[d] = calling[d]
        BY <3>1 DEF CardTypes, NoCall
      <3>3. \A d \in Calls : Answers(d)' <=> Answers(d)
        BY <3>1, <3>2 DEF Answers, Issuing
      <3>4. \A d \in Calls : Answers(d) => calling'[d].read.alias = calling[d].read.alias
        BY <3>1, <3>2 DEF Answers
      <3>5. \A d, e \in Calls : Issuing(d)' /\ Issuing(e)' => d = e
        BY <2>0, <3>1, <3>2 DEF Issuing, AddressKept
      <3>6. \A d \in Calls : Issuing(d)' => calling'[d].at # "half"
        BY <2>0, <3>2 DEF Issuing, AddressKept
      <3> QED
        BY <2>0, <3>1, <3>3, <3>4, <3>5, <3>6 DEF AddressKept
    <2>3. CASE Loaded(c)
      BY <2>0, <2>3, QuietStep DEF Loaded, Doing, Keeps, NoCall, Issuing, Answers, Issues, CardTypes
    <2>4. CASE Issued(c)
      <3>1. /\ calling' = [calling EXCEPT ![c] = NoCall] /\ relay' = relay
            /\ card'.address = calling[c].read.alias /\ Answers(c)
        BY <2>4 DEF Issued, Answers, Issuing
      <3>2. \A d \in Calls : ~Issuing(d)'
        BY <2>0, <3>1, NoCallType DEF Issuing, Answers, AddressKept, CardTypes
      <3> QED
        BY <2>0, <3>1, <3>2 DEF AddressKept, Answers
    <2>5. CASE Acted(c)
      BY <2>0, <2>5, QuietStep DEF Acted, NoCall, Issuing, Answers, Issues, CardTypes
    <2> QED
      BY <2>1, <2>2, <2>3, <2>4, <2>5
  <1> QED
    BY <1>1, <1>2

LEMMA ServerKeepsAddress ==
  ASSUME CardTypes, astray \/ AddressKept, NEW c \in Calls,
         \/ IssueAlias(c) \/ RevokesAll(c) \/ RevokesSource(c) \/ UpdatesVerification(c)
         \/ Prepares(c) \/ ReadsAlias(c) \/ ReadsSources(c) \/ Troubled(c)
  PROVE  astray' \/ AddressKept'
  <1>1. CASE astray
    BY <1>1 DEF IssueAlias, RevokesAll, RevokesSource, UpdatesVerification, Prepares, ReadsAlias,
                ReadsSources, Troubled
  <1>2. CASE ~astray
    <2>0. AddressKept
      BY <1>2
    <2>1. CASE IssueAlias(c)
      <3>1. /\ relay'.alias = issued + 1 /\ Answers(c)' /\ calling'[c].read.alias = issued + 1
            /\ Issuing(c) /\ \A d \in Calls \ {c} : calling'[d] = calling[d]
        BY <2>1 DEF IssueAlias, Answers, Issuing, CardTypes, NoRelay
      <3>2. \A d \in Calls : Issuing(d)' => d = c
        BY <2>0, <3>1 DEF AddressKept, Issuing
      <3> QED
        BY <3>1, <3>2 DEF AddressKept, Answers
    <2>2. ASSUME calling[c].act \notin Issues, card'.address = card.address,
                 relay'.alias = relay.alias \/ relay'.alias = 0,
                 \A d \in Calls \ {c} : calling'[d] = calling[d],
                 calling'[c].act \notin Issues
          PROVE  AddressKept'
      BY <2>0, <2>2, QuietStep DEF Issuing, Answers
    <2>3. CASE RevokesAll(c) \/ ReadsAlias(c)
      BY <2>2, <2>3, NoRelayType DEF RevokesAll, ReadsAlias, Doing, Moves, Issues, CardTypes
    <2>4. CASE ReadsSources(c)
      <3>1. CASE calling[c].act \in Issues
        BY <2>0, <2>4, <3>1 DEF ReadsSources, AddressKept, Issuing
      <3>2. CASE calling[c].act \notin Issues
        BY <2>2, <2>4, <3>2 DEF ReadsSources, CardTypes
      <3> QED
        BY <3>1, <3>2
    <2>5. ASSUME Failed(c), calling[c].act \notin Issues, relay' = relay PROVE AddressKept'
      BY <2>2, <2>5, FailedTypes, NoCallType DEF CardTypes
    <2>6. ASSUME Moves(c, "answered"), calling[c].act \notin Issues, relay'.alias = relay.alias,
                 card' = card
          PROVE  AddressKept'
      BY <2>2, <2>6 DEF Moves, CardTypes
    <2>7. CASE RevokesSource(c)
      BY <2>5, <2>6, <2>7 DEF RevokesSource, Doing, Issues, CardTypes, RelayState
    <2>8. CASE UpdatesVerification(c)
      BY <2>5, <2>6, <2>8 DEF UpdatesVerification, Issues, CardTypes, RelayState
    <2>9. CASE Prepares(c)
      BY <2>5, <2>6, <2>9 DEF Prepares, Doing, Issues
    <2>10. ASSUME Troubled(c), ~astray' PROVE AddressKept'
      <3>1. /\ ~Answers(c) /\ Failed(c) /\ relay' = relay
        BY <2>10 DEF Troubled, Answers, Issuing
      <3> QED
        BY <2>0, <3>1, FailedTypes, NoCallType, QuietStep DEF Issuing, Answers, CardTypes
    <2> QED
      BY <2>1, <2>3, <2>4, <2>7, <2>8, <2>9, <2>10
  <1> QED
    BY <1>1, <1>2

LEMMA CardInvInit == CardInit => CardInv
  <1> SUFFICES ASSUME CardInit PROVE CardInv
    OBVIOUS
  <1>1. PICK c \in Calls :
          calling = [d \in Calls |->
                       IF d = c THEN [NoCall EXCEPT !.act = "state", !.at = "sent"] ELSE NoCall]
    BY DEF CardInit
  <1>2. \A d \in Calls : ~Issuing(d)
    BY <1>1, NoCallType DEF Issuing, Issues, NoCall
  <1>3. [NoCall EXCEPT !.act = "state", !.at = "sent"] \in
          [act : Action, id : Nat, at : {"free", "sent", "half", "answered"}, read : RelayState]
    BY NoCallType DEF Action
  <1>4. relay \in RelayState /\ relay.alias \in {0, 1}
    BY NoRelayType DEF CardInit, RelayState
  <1>5. NoCard \in [view : RelayState, address : Nat, busy : BOOLEAN]
    BY NoRelayType DEF NoCard
  <1>6. CardTypes
    BY <1>1, <1>3, <1>4, <1>5, NoCallType DEF CardInit, CardTypes
  <1>7. AddressKept
    BY <1>2, <1>4 DEF AddressKept
  <1> QED
    BY <1>6, <1>7 DEF CardInv

LEMMA CardInvNext == CardInv /\ [CardNext]_relayCard => CardInv'
  <1> SUFFICES ASSUME CardInv, [CardNext]_relayCard PROVE CardInv'
    OBVIOUS
  <1>1. CASE UNCHANGED relayCard
    BY <1>1 DEF relayCard, CardInv, CardTypes, AddressKept, Issuing, Answers
  <1>2. ASSUME ConfirmationComes \/ SourceProven PROVE CardInv'
    <2>1. CardTypes' /\ relay'.alias = relay.alias
      BY <1>2, WorldTypes DEF CardInv
    <2>2. UNCHANGED <<card, calling, astray>>
      BY <1>2 DEF ConfirmationComes, SourceProven
    <2> QED
      BY <2>1, <2>2 DEF CardInv, AddressKept, Issuing, Answers
  <1> QED
    BY <1>1, <1>2, PageTypes, ServerTypes, PageKeepsAddress, ServerKeepsAddress DEF CardNext, CardInv

\* An address issued to this page is shown for as long as the alias is in use, whatever
\* refreshes and other actions are answered before and after, unless two issues overlapped
\* or the answer of one was lost.
THEOREM CardShowsIssued == CardSpec => []IssuedShown
  <1>1. CardInv => IssuedShown
    BY DEF CardInv, AddressKept, IssuedShown, Answers, Issuing
  <1> QED
    BY <1>1, CardInvInit, CardInvNext, PTL DEF CardSpec
=============================================================================
