------------------------------ MODULE Amounts -------------------------------
(***************************************************************************)
(* How an amount of money is read from text.  Four readers of the same     *)
(* kind of text exist: the parser of mails (financial-parser.ts), the      *)
(* parser of notifications on the phone (NotificationCandidateParser.java),*)
(* the forms of the application (money.ts) and the import of files         *)
(* (importing/index.ts).  A payment is often told twice, by a mail and by  *)
(* a notification, and the two are recognised as one only if both readers  *)
(* find the same amount, kind and currency.                                *)
(*                                                                         *)
(* A number in a text is its groups of digits and the separators between   *)
(* them, <<1>>, <<2, 3, 4>> and <<5, 0>> with "." and "," for 1.234,50.    *)
(* Spaces between groups are removed by every reader and are left out.     *)
(***************************************************************************)
EXTENDS Integers, FiniteSets, SequencesExt, Lists

CONSTANTS Texts,   \* texts of messages
          Base     \* the currency of the user

VARIABLE heard     \* the message read and what each parser made of it

Digit == 0..9
\* worth is what its writer meant, in hundredths
Number == [groups : Seq(Seq(Digit) \ {<<>>}), seps : Seq({".", ","}), worth : Nat]

Numeral(digits) == Running(LAMBDA n, i : 10 * n + digits[i], 0, Len(digits))[Len(digits)]
Joined(groups) == FlattenSeq(groups)

\* The value whole.cents in units of which 10^e make one: round(value * 10 ** e).
Minor(whole, cents, e) ==
  LET n == Numeral(whole \o cents) * 10 ^ e
      d == 10 ^ Len(cents)
  IN (2 * n + d) \div (2 * d)

Mixed(t) == {".", ","} \subseteq Range(t.seps)
LastWidth(t) == Len(Last(t.groups))
\* The decimal separator is the last one; found twice, Number() refuses the text.
Repeated(t) == Cardinality({i \in DOMAIN t.seps : t.seps[i] = Last(t.seps)}) > 1

WithCents(t, e) == Minor(Joined(Front(t.groups)), Last(t.groups), e)
Whole(t, e) == Minor(Joined(t.groups), <<>>, e)

\* A customary number: cents, of which there are one or two digits, follow a separator that
\* separates nothing else, and where there are two kinds of separators there are cents.
Customary(t) ==
  /\ Mixed(t) => LastWidth(t) <= 2
  /\ t.seps # <<>> /\ LastWidth(t) <= 2 => ~Repeated(t)
Meant(t) == IF t.seps # <<>> /\ LastWidth(t) <= 2 THEN WithCents(t, 2) ELSE Whole(t, 2)

\* bound: the digits of an amount in hundredths
MaxDigits == 9

\* A number has a separator between any two of its groups; a customary one is worth what it says.
Wellformed(t) ==
  /\ t \in Number /\ Len(t.groups) = Len(t.seps) + 1 /\ t.worth < 10 ^ MaxDigits
  /\ Customary(t) => t.worth = Meant(t)

Message(text) ==
  /\ text.numbers \in Seq([amount : Number, marked : BOOLEAN, sign : BOOLEAN, worded : BOOLEAN])
  /\ text.out \in [single : Nat, phrase : Nat] /\ text.in \in [single : Nat, phrase : Nat]
  /\ \A i \in DOMAIN text.numbers : Wellformed(text.numbers[i].amount)

ASSUME AmountsAssumption == \A text \in Texts : Message(text)

-----------------------------------------------------------------------------
(* The readers.  The result is an amount in minor units; 0 stands for a    *)
(* text that is refused, as every reader refuses an amount of zero.        *)

\* Two separators of different kinds, read as thousands and cents.
ReadMixed(t, e) ==
  CASE LastWidth(t) > 2 \/ e = 0 -> Whole(t, e)
    [] LastWidth(t) <= 2 /\ e > 0 /\ Repeated(t) -> 0
    [] OTHER -> WithCents(t, e)

\* parseNumericToken of the forms, and parseToken of the phone.
FormAmount(t, e) ==
  CASE Mixed(t) -> ReadMixed(t, e)
    [] ~Mixed(t) /\ t.seps # <<>> /\ e > 0 /\ LastWidth(t) <= 2 -> WithCents(t, e)
    [] OTHER -> Whole(t, e)

PhoneAmount(t, e) == FormAmount(t, e)

\* mutant: the cents are looked for in up to three digits.
MailAmountThree(t, e) ==
  CASE Mixed(t) -> ReadMixed(t, e)
    [] ~Mixed(t) /\ Len(t.seps) = 1 /\ e > 0 /\ LastWidth(t) <= 3 -> WithCents(t, e)
    [] OTHER -> Whole(t, e)

\* parseToken of the mails: cents only after a single separator.
MailAmount(t, e) ==
  CASE Mixed(t) -> ReadMixed(t, e)
    [] ~Mixed(t) /\ Len(t.seps) = 1 /\ e > 0 /\ LastWidth(t) <= 2 -> WithCents(t, e)
    [] OTHER -> Whole(t, e)

\* normalizeNumber and "* 100" of the import, whatever the currency.
ImportAmount(t) ==
  CASE Mixed(t) /\ Repeated(t) -> 0
    [] Mixed(t) /\ ~Repeated(t) -> WithCents(t, 2)
    [] ~Mixed(t) /\ t.seps # <<>> /\ LastWidth(t) <= 2 -> WithCents(t, 2)
    [] OTHER -> Whole(t, 2)

ZeroDecimal == {"COP", "JPY", "KRW", "CLP", "PYG", "VND"}
Exponent(currency) == IF currency \in ZeroDecimal THEN 0 ELSE 2

Digits(n) ==
  LET k == CHOOSE k \in 1..MaxDigits : 10 ^ k > n /\ (k > 1 => 10 ^ (k - 1) <= n)
  IN [i \in 1..k |-> (n \div 10 ^ (k - i)) % 10]

\* String(fromMinorUnits(minor, currency)): what an editor is filled with.
Shown(minor, e) ==
  LET cents == minor % 10 ^ e
      whole == Digits(minor \div 10 ^ e)
  IN CASE cents = 0 -> [groups |-> <<whole>>, seps |-> <<>>]
       [] cents # 0 /\ cents % 10 = 0 -> [groups |-> <<whole, <<cents \div 10>>>>, seps |-> <<".">>]
       [] OTHER -> [groups |-> <<whole, <<cents \div 10, cents % 10>>>>, seps |-> <<".">>]

-----------------------------------------------------------------------------
(* A message: its numbers, each with what stands around it (a mark of some *)
(* currency, one of the signs $, EUR, GBP, a word of direction), the       *)
(* currency it names, and how many words of each direction it has, of one  *)
(* word and of several.  Noise is a code, a promotion, a balance, or a     *)
(* payment that failed.                                                    *)

CurrencyOf(text) == IF text.names = "none" THEN Base ELSE text.names

Weight(b, w) == IF b THEN w ELSE 0
Between(minor, e) == 1900 * 10 ^ e <= minor /\ minor <= 2100 * 10 ^ e

\* A number of this size may be a year, unless a sign of money stands by it.
MailYear(n, minor, e) == Between(minor, e) /\ ~n.sign
PhoneYear(n, minor, e) == Between(minor, e) /\ minor % 10 ^ e = 0 /\ ~n.sign

Score(n, year) == Weight(n.marked, 5) + Weight(n.worded, 3) - Weight(year, 5)

\* The number with the best score, the largest of those; 0 if there is none.
Chosen(text, value, year) ==
  LET score == [i \in DOMAIN value |-> Score(text.numbers[i], year[i])]
      read == {i \in DOMAIN value : value[i] > 0}
      Beats(i, j) == score[i] > score[j] \/ (score[i] = score[j] /\ value[i] >= value[j])
      best == CHOOSE i \in read : \A j \in read : Beats(i, j)
  IN IF read = {} \/ score[best] < 0 THEN 0 ELSE value[best]

\* parseMoney of the mails, and of the phone.
MailMoney(text) ==
  LET e == Exponent(CurrencyOf(text))
      value == [i \in DOMAIN text.numbers |-> MailAmount(text.numbers[i].amount, e)]
  IN Chosen(text, value, [i \in DOMAIN value |-> MailYear(text.numbers[i], value[i], e)])
PhoneMoney(text) ==
  LET e == Exponent(CurrencyOf(text))
      value == [i \in DOMAIN text.numbers |-> PhoneAmount(text.numbers[i].amount, e)]
  IN Chosen(text, value, [i \in DOMAIN value |-> PhoneYear(text.numbers[i], value[i], e)])

Nothing == [kind |-> "none", minor |-> 0, currency |-> "none"]

\* classify counts words in a mail and weighs them on the phone.
MailKind(text) ==
  LET out == text.out.single + text.out.phrase
      in == text.in.single + text.in.phrase
  IN CASE out > in -> "expense" [] in > out -> "income" [] OTHER -> "none"
PhoneKind(text) ==
  LET out == 2 * text.out.single + 3 * text.out.phrase
      in == 2 * text.in.single + 3 * text.in.phrase
  IN CASE out > in -> "expense" [] in > out -> "income" [] OTHER -> "none"

Candidate(text, kind, minor) ==
  IF text.noise \/ kind = "none" \/ minor = 0 THEN Nothing
  ELSE [kind |-> kind, minor |-> minor, currency |-> CurrencyOf(text)]

\* parseMailMessage.  The thresholds on confidence never decide: a message with
\* an amount and a direction reaches 0.77 in a mail and 0.75 on the phone.
MailCandidate(text) == Candidate(text, MailKind(text), MailMoney(text))

\* parse on the phone, and validateDeviceCandidate, which keeps what it found.
PhoneCandidate(text) == Candidate(text, PhoneKind(text), PhoneMoney(text))

-----------------------------------------------------------------------------
Unread == [text |-> [numbers |-> <<>>], mail |-> Nothing, phone |-> Nothing]

AmountsInit == heard = Unread
Hear(text) ==
  heard' = [text |-> text, mail |-> MailCandidate(text), phone |-> PhoneCandidate(text)]
AmountsNext == heard = Unread /\ \E text \in Texts : Hear(text)
AmountsSpec == AmountsInit /\ [][AmountsNext]_heard

-----------------------------------------------------------------------------
OneSided(text) ==
  \/ text.out.single + text.out.phrase = 0
  \/ text.in.single + text.in.phrase = 0
\* An amount with cents of the size of a year: only the mails take it for one.
CentsOfAYear(text) ==
  \E i \in DOMAIN text.numbers : LET w == text.numbers[i].amount.worth IN Between(w, 2) /\ w % 100 # 0

(***************************************************************************)
(* Every reader finds in a number written in a customary way what its      *)
(* writer meant, in a currency with cents and, for a number without them,  *)
(* in one that has none; what an editor shows of an amount is read back as *)
(* that amount; and a mail and a notification with the same words give the *)
(* same candidate, which is what the recognition of twins compares.        *)
(* (financial-parser.ts, NotificationCandidateParser.java, money.ts,       *)
(* importing/index.ts)                                                     *)
(***************************************************************************)
NumberAgrees(t) ==
  /\ {FormAmount(t, 2), MailAmount(t, 2), PhoneAmount(t, 2), ImportAmount(t)} = {t.worth}
  /\ t.worth % 100 = 0 /\ (t.seps = <<>> \/ LastWidth(t) = 3) =>
       {FormAmount(t, 0), MailAmount(t, 0), PhoneAmount(t, 0)} = {t.worth \div 100}
  /\ \A e \in {0, 2} : FormAmount(Shown(t.worth, e), e) = t.worth

ReadersAgree ==
  LET amounts == {heard.text.numbers[i].amount : i \in DOMAIN heard.text.numbers}
  IN /\ \A t \in amounts : Customary(t) => NumberAgrees(t)
     /\ heard # Unread /\ (\A t \in amounts : Customary(t))
          /\ OneSided(heard.text) /\ ~CentsOfAYear(heard.text) => heard.mail = heard.phone
=============================================================================
