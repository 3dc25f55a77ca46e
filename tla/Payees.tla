-------------------------------- MODULE Payees --------------------------------
(***************************************************************************)
(* Verification of payee and saved payees, over the accounts of Cards.  A    *)
(* check reads the account of an IBAN in one statement and the customer's    *)
(* saved payee in another, while accounts come and go, are blocked, and      *)
(* their holders change their names.                                        *)
(*                                                                          *)
(* A customer means the IBAN of an account number and types it right or with *)
(* one slip.  One check is followed at a time.                               *)
(***************************************************************************)
EXTENDS Cards, CheckDigits, PayeeNames

CONSTANTS
  Askers,      \* bound: the customers who save and check payees
  KnownNames,  \* a list of names: those of holders and of saved payees
  TypedNames,  \* a list of names: those typed into a check
  MaxPayees,   \* bound: the payees saved
  Mixed,       \* bound: whether cards and payees come in one behaviour
  PanPrefixes     \* digits a card number is drawn from

\* What is drawn: an account number has ten digits at most, and fourteen digits
\* of a card number are drawn.
ASSUME DrawnDigits ==
  /\ \A n \in Numbers : n \in Nat /\ n \div 10 ^ 9 \in 0..9
  /\ PanPrefixes \subseteq [1..14 -> 0..9]

ASSUME PayeesAssumption == MaxPayees \in Nat

\* What is typed and what is known are names.
ASSUME NamesAreNames ==
  /\ \A p \in DOMAIN TypedNames : IsName(TypedNames[p])
  /\ \A a \in DOMAIN KnownNames : IsName(KnownNames[a])

VARIABLES
  holder,         \* users.full_name of each customer, as its place in KnownNames
  beneficiaries,  \* the beneficiaries table
  check           \* the check in progress, or the last one answered

payeeVars == <<holder, beneficiaries, check>>
allVars == <<vars, payeeVars>>

IBANs == {<<n, GermanDemoIBANForAccount(n)>> : n \in Numbers}

\* The customer means account number i[1] and types s: what is refused is typed
\* again, correctly.
Accept(i, s) == <<i[1], IF ValidateIBAN(s) THEN s ELSE i[2]>>

\* All that gets past the validation when a customer makes one slip or none.
Typed == UNION {{Accept(i, s) : s \in OneSlip(i[2])} : i \in IBANs}

\* A name is known by its place in its list; place 0 is no name.
Known == DOMAIN KnownNames
NameAt(a) == IF a = 0 THEN NoName ELSE KnownNames[a]
\* Which typed name gets which verdict against which known name.
Evaluations ==
  {<<p, a, EvaluateVoP(TypedNames[p], NameAt(a))>> :
     p \in DOMAIN TypedNames, a \in {0} \cup Known}

NoCheck ==
  [step |-> "idle", asker |-> CHOOSE o \in Customers : TRUE, meant |-> 0,
   iban |-> <<>>, provided |-> 0, actual |-> 0, result |-> "", suggested |-> 0]

PayeesInit ==
  /\ Init
  /\ holder = [o \in Customers |-> 1]
  /\ beneficiaries = {}
  /\ check = NoCheck

Answer(c, name) ==
  \E verdict \in Verdicts :
    /\ <<c.provided, name, verdict>> \in Evaluations
    /\ check' = [c EXCEPT !.step = "answered", !.actual = name,
                   !.result = verdict,
                   !.suggested = IF verdict = "CLOSE_MATCH" THEN name ELSE 0]

\* The name of an active account's holder is what a check is made against.
LookupPayeeByIBAN(iban) ==
  {holder[a.owner] : a \in {b \in accounts : <<b.number, iban>> \in IBANs
                                             /\ b.status = "ACTIVE"}}

GetBeneficiaryByIBAN(o, iban) ==
  {b.name : b \in {c \in beneficiaries : c.owner = o /\ c.iban = iban}}

\* The account is looked up ...
VerifyPayee(o, p, n, s) ==
  LET c == [NoCheck EXCEPT !.asker = o, !.meant = n, !.iban = s,
              !.provided = p]
      names == LookupPayeeByIBAN(s)
  IN  /\ check.step # "saved"
      /\ IF names # {} THEN \E name \in names : Answer(c, name)
         ELSE check' = [c EXCEPT !.step = "saved"]
      /\ UNCHANGED <<vars, holder, beneficiaries>>

\* ... and without an active one, the customer's own saved payee.
VerifySavedPayee ==
  LET names == GetBeneficiaryByIBAN(check.asker, check.iban)
  IN  /\ check.step = "saved"
      /\ IF names # {} THEN \E name \in names : Answer(check, name)
         ELSE Answer(check, 0)
      /\ UNCHANGED <<vars, holder, beneficiaries>>

\* INSERT ... ON CONFLICT (owner_id, iban) DO UPDATE: a payee that is saved
\* again is renamed.
SaveBeneficiary(o, name, s) ==
  beneficiaries' =
    {b \in beneficiaries : b.owner # o \/ b.iban # s} \cup
    {[owner |-> o, iban |-> s, name |-> name]}

CreateBeneficiary(o, name, s) ==
  /\ SaveBeneficiary(o, name, s)
  /\ Cardinality(beneficiaries') <= MaxPayees
  /\ UNCHANGED <<vars, holder, check>>

\* A customer changes the name on the profile; name and audit row are one
\* transaction; the row is left out.
UpdateCustomerProfile(o, name) == holder' = [holder EXCEPT ![o] = name]

UpdateProfile(o, name) ==
  /\ UpdateCustomerProfile(o, name)
  /\ UNCHANGED <<vars, beneficiaries, check>>

\* Bound: unless Mixed, a behaviour goes on with cards or with payees, and with
\* payees it has one account at a time.  The two meet only in the accounts.
NoPayees == payeeVars = <<[o \in Customers |-> 1], {}, NoCheck>>
NoCards ==
  /\ issued = 0
  /\ \A r \in Requests : Is(r, "idle")
  /\ \A a, b \in accounts : a = b /\ ~a.used

PayeesNext ==
  \/ /\ Next /\ UNCHANGED payeeVars
     /\ Mixed \/ NoPayees \/ NoCards'
  \/ \E o \in Askers, p \in DOMAIN TypedNames, t \in Typed :
       (Mixed \/ NoCards) /\ VerifyPayee(o, p, t[1], t[2])
  \/ VerifySavedPayee
  \/ \E o \in Askers, name \in Known, t \in Typed :
       (Mixed \/ NoCards) /\ CreateBeneficiary(o, name, t[2])
  \/ \E o \in Customers, name \in Known :
       (Mixed \/ NoCards) /\ UpdateProfile(o, name)

PayeesSpec == PayeesInit /\ [][PayeesNext]_allVars

-----------------------------------------------------------------------------

RightVerdicts ==
  {<<p, a, Verdict(TypedNames[p], NameAt(a))>> :
     p \in DOMAIN TypedNames, a \in {0} \cup Known}

\* The answer to a check is the one the plain definition of the four verdicts
\* gives for the name on record, and the name is told only when it is close
\* (vop.go:36-144).
VerdictIsRight ==
  check.step = "answered" =>
    /\ <<check.provided, check.actual, check.result>> \in RightVerdicts
    /\ check.suggested # 0 <=> check.result = "CLOSE_MATCH"

CardNumbersCaught ==
  {p \in PanPrefixes :
     LET pan == generatePAN(p)
     IN  validPAN(pan) /\ \A s \in PANSlips(pan) : ~validPAN(s)}

GoodIBANs == {i \in IBANs : ValidateIBAN(i[2])}

\* What a customer who means an account number may get past the validation: its
\* IBAN, and that with a letter for a digit nobody notices.
WithLetter ==
  UNION {{<<i[1], Mistyped(i[2], u[1], u[2])>> : u \in Unnoticed(i[2])} :
         i \in IBANs}
MayPass == IBANs \cup WithLetter

\* Every IBAN made is valid, and whoever makes one slip in it is refused but for
\* the letters MOD-97 does not notice, which lead to no account of the bank:
\* no check is ever made for, and no payee ever saved under, another IBAN than
\* the one that was meant, or that with such a letter (iban.go:38-123).  A card
\* number catches every slip but a 0 and a 9 that are swapped
\* (card/service.go:310-344).
SlipsAreCaught ==
  /\ GoodIBANs = IBANs
  /\ Typed = MayPass
  /\ \A t \in WithLetter, i \in IBANs : i[2] # t[2]
  /\ check.step # "idle" => <<check.meant, check.iban>> \in MayPass
  /\ \A b \in beneficiaries : \E n \in Numbers : <<n, b.iban>> \in MayPass
  /\ CardNumbersCaught = PanPrefixes
=============================================================================
