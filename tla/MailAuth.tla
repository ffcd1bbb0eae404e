------------------------------ MODULE MailAuth ------------------------------
(***************************************************************************)
(* Who forwarded a mail (_shared/email-provider-auth.ts): the signatures   *)
(* of its DKIM and ARC headers are checked by the library mailauth, which  *)
(* asks for the keys through a resolver that shares and bounds its         *)
(* requests; only evidence of a kind the gateway knows becomes a proof.    *)
(* The library may ask for several keys at once, in any order.             *)
(*                                                                         *)
(* And what a proven mail asks the user to approve                         *)
(* (_shared/email-relay.ts): the link or code found in it is kept, and     *)
(* looked at again before it is shown.  Only Google's mails are proven, so *)
(* a link's host is Google's or not.  The grammar of MIME and HTML is left *)
(* out: a mail's content is the parts found in it, what they say and the   *)
(* links they hold.                                                        *)
(***************************************************************************)
EXTENDS Integers, FiniteSets, SequencesExt

CONSTANTS
  Letters,     \* mails: rows, the DKIM signatures, and chain, the ARC signature and its seal
  KeyNames,    \* names under which keys are asked for
  LookupMax,   \* lookups a resolver makes
  RowMax,      \* bound: signatures of a mail
  Contents,    \* what mails say: the subject, whether there is a code, and the parts
  LinkMax      \* links of HTML that are looked at

Signature ==
  [key : KeyNames, sound : BOOLEAN, domain : STRING, system : BOOLEAN, recipient : BOOLEAN]
Signatures(s) == s \in Seq(Signature) /\ Len(s) <= RowMax

ASSUME MailAuthAssumption ==
  /\ LookupMax \in Nat /\ RowMax \in Nat /\ LinkMax \in Nat
  /\ \A l \in Letters : Signatures(l.rows) /\ Signatures(l.chain)

VARIABLES
  letter,    \* the mail being verified
  stage,     \* "dkim", "arc", "done", "read"
  asked,     \* the key of each signature of this stage: "no", "waits", "has", "fails"
  cache,     \* the promises of the resolver: "no", "flying", "has"
  lookups,   \* uniqueLookups
  flights,   \* requests under way for each name
  dkim,      \* after the first stage: the signatures that were found sound
  proof,     \* the evidence
  offer      \* what the user is asked to approve, as it is kept

mailAuth == <<letter, stage, asked, cache, lookups, flights, dkim, proof, offer>>

Unproven == [level |-> "unknown", mechanism |-> "none", row |-> 0]

SignaturesOf(s) == IF s = "dkim" THEN letter.rows ELSE letter.chain
KeyOf(i) == SignaturesOf(stage)[i].key
Unasked == [i \in 1..RowMax |-> "no"]

\* mutant: a promise is kept only once it has its answer.
RemembersAnswers(n) == "no"

\* The promise is shared from the moment the request is on its way.
Remembers(n) == "flying"

\* The resolver: a promise of the name is shared; a new one counts, and there are so many.
AskKey(i) ==
  LET n == KeyOf(i)
      over == cache[n] = "no" /\ lookups >= LookupMax
  IN /\ asked[i] = "no"
     /\ lookups' = IF cache[n] = "no" THEN lookups + 1 ELSE lookups
     /\ asked' = [asked EXCEPT ![i] = IF over THEN "fails" ELSE IF cache[n] = "has" THEN "has" ELSE "waits"]
     /\ IF cache[n] = "no" /\ ~over
          THEN /\ cache' = [cache EXCEPT ![n] = Remembers(n)]
               /\ flights' = [flights EXCEPT ![n] = @ + 1]
          ELSE UNCHANGED <<cache, flights>>
     /\ UNCHANGED <<letter, stage, dkim, proof, offer>>

\* A key arrives, or the request fails and its promise is forgotten.
Served(n, found) ==
  /\ flights[n] > 0
  /\ flights' = [flights EXCEPT ![n] = @ - 1]
  /\ cache' = [cache EXCEPT ![n] = IF found THEN "has" ELSE "no"]
  /\ asked' = [i \in DOMAIN asked |->
                 IF asked[i] = "waits" /\ KeyOf(i) = n THEN IF found THEN "has" ELSE "fails" ELSE asked[i]]
  /\ UNCHANGED <<letter, stage, lookups, dkim, proof, offer>>

Settled == \A i \in DOMAIN SignaturesOf(stage) : asked[i] \in {"has", "fails"}

\* What the library says of a signature: its key was found, it verifies over what it covers,
\* its time is valid; and what the gateway asks of it: a strong algorithm.
Sound == {i \in DOMAIN SignaturesOf(stage) : asked[i] = "has" /\ SignaturesOf(stage)[i].sound}

Google(domain) == domain = "google.com"

ToArc ==
  /\ stage = "dkim" /\ Settled
  /\ stage' = "arc" /\ dkim' = Sound
  /\ asked' = Unasked
  /\ UNCHANGED <<letter, cache, lookups, flights, proof, offer>>

\* arcEvidence: the message's signature and the last seal, sound and both of Google.
ArcProof == letter.chain # <<>> /\ Sound = {1, 2} /\ \A i \in {1, 2} : Google(letter.chain[i].domain)

\* directDkimEvidence: one signature of Google that covers the system's sender and the recipient.
DirectRows ==
  {i \in dkim : Google(letter.rows[i].domain) /\ letter.rows[i].system /\ letter.rows[i].recipient}

\* verifyForwardingProviderAuth: the chain first, then the signatures; nothing if the library
\* could not verify at all.
Conclude ==
  /\ stage = "arc" /\ Settled
  /\ stage' = "done"
  /\ proof' = CASE ArcProof -> [level |-> "strong", mechanism |-> "arc", row |-> 0]
                [] ~ArcProof /\ DirectRows # {} ->
                     [level |-> "strong", mechanism |-> "dkim", row |-> Min(DirectRows)]
                [] OTHER -> Unproven
  /\ asked' = Unasked
  /\ UNCHANGED <<letter, cache, lookups, flights, dkim, offer>>

CannotVerify ==
  /\ stage = "dkim" /\ stage' = "done" /\ proof' = Unproven
  /\ asked' = Unasked
  /\ UNCHANGED <<letter, cache, lookups, flights, dkim, offer>>

-----------------------------------------------------------------------------
NoLink == [https |-> FALSE, google |-> FALSE, approves |-> FALSE, refuses |-> FALSE, fits |-> TRUE]
NoOffer == [kind |-> "none", link |-> NoLink, code |-> FALSE]

\* extractMailContent: attachments, and parts that are neither text nor HTML, are not read.
Parts(c) == SelectSeq(c.parts, LAMBDA p : ~p.attached /\ p.type \in {"html", "plain"})

\* The subject and the text, which holds the text of the links and the addresses written out.
Said(c) == c.subject \cup UNION {Parts(c)[i].says : i \in DOMAIN Parts(c)}

LinksIn(c, type) ==
  FlattenSeq([i \in DOMAIN Parts(c) |-> IF Parts(c)[i].type = type THEN Parts(c)[i].links ELSE <<>>])

\* The links of HTML, the first of them, and then what looks like a secure one in the text.
Candidates(c) ==
  LET anchors == LinksIn(c, "html")
  IN SubSeq(anchors, 1, Min({LinkMax, Len(anchors)})) \o SelectSeq(LinksIn(c, "plain"), LAMBDA l : l.https)

\* semantics
AboutForwarding(c) == "forwarding" \in Said(c)

\* safeProviderVerificationUrl
SafeLink(l) == l.https /\ l.google /\ l.approves /\ ~l.refuses

\* positive, of the link's own text and the whole mail: one that also tells how to cancel
\* offers no link.
Positive(c) == "confirm" \in Said(c) /\ "cancel" \notin Said(c)

Kind(link, code) ==
  CASE link # NoLink /\ code -> "safe_url_and_code"
    [] link # NoLink /\ ~code -> "safe_url"
    [] link = NoLink /\ code -> "code"
    [] OTHER -> "instructions_only"

\* extractAuthenticatedForwardingAction: the first link that will do, and the code.
Action(c, link) ==
  /\ AboutForwarding(c)
  /\ LET fit == {i \in DOMAIN Candidates(c) : SafeLink(Candidates(c)[i]) /\ Positive(c)}
     IN \/ fit = {} /\ link = NoLink
        \/ \E i \in fit : (\A j \in fit : i <= j) /\ link = Candidates(c)[i]

\* service_create_email_relay_forwarding_verification: a link that grew too long when it was
\* encoded is refused, and with it the offer.
Keeps(link, code) == IF link.fits THEN [kind |-> Kind(link, code), link |-> link, code |-> code] ELSE NoOffer

\* Only a proven mail is asked; what happens to its source and event is Relay's.
Reads(c) ==
  /\ stage = "done" /\ stage' = "read"
  /\ \/ /\ proof.level = "strong"
        /\ \E link \in {NoLink} \cup Range(Candidates(c)) :
             Action(c, link) /\ offer' = Keeps(link, c.code)
     \/ (proof.level # "strong" \/ ~AboutForwarding(c)) /\ UNCHANGED offer
  /\ UNCHANGED <<letter, asked, cache, lookups, flights, dkim, proof>>

\* normalizeVerificationAction: what the card shows of what is kept.
Displayed ==
  LET link == IF SafeLink(offer.link) THEN offer.link ELSE NoLink
  IN [kind |-> Kind(link, offer.code), link |-> link, code |-> offer.code]

MailAuthInit ==
  /\ letter \in Letters /\ stage = "dkim" /\ asked = Unasked
  /\ cache = [n \in KeyNames |-> "no"] /\ lookups = 0 /\ flights = [n \in KeyNames |-> 0]
  /\ dkim = {} /\ proof = Unproven /\ offer = NoOffer

MailAuthNext ==
  \/ stage \in {"dkim", "arc"} /\ \E i \in DOMAIN SignaturesOf(stage) : AskKey(i)
  \/ \E n \in KeyNames, found \in BOOLEAN : Served(n, found)
  \/ ToArc \/ Conclude \/ CannotVerify
  \/ \E c \in Contents : Reads(c)

MailAuthSpec == MailAuthInit /\ [][MailAuthNext]_mailAuth

-----------------------------------------------------------------------------
\* However the library asks, a verification makes no more requests than it may, never two
\* for a name at a time, and never one for a name it has: it ends with the keys it got.
\* And a proof rests on signatures that carry all of it: one signature of Google covers both
\* the sender and the recipient, or the message and the last seal are both Google's.
\* What a user is asked to approve comes of such a proof alone, names no link but a secure one
\* of the provider, and is shown as it was kept, by code that looks at it anew.
\* (createBoundedDohTxtResolver, directDkimEvidence, arcEvidence, normalizeVerificationAction)
ProvenBySignature ==
  /\ \A n \in KeyNames : flights[n] <= 1 /\ (cache[n] = "has" => flights[n] = 0)
  /\ proof.mechanism = "dkim" =>
       LET row == letter.rows[proof.row]
       IN row.sound /\ Google(row.domain) /\ row.system /\ row.recipient /\ cache[row.key] = "has"
  /\ proof.mechanism = "arc" =>
       \A i \in 1..2 : letter.chain[i].sound /\ Google(letter.chain[i].domain)
  /\ offer # NoOffer =>
       proof.mechanism \in {"dkim", "arc"} /\ Displayed = offer /\ (offer.link # NoLink => SafeLink(offer.link))
=============================================================================
