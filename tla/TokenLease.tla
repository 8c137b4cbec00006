------------------------------ MODULE TokenLease ------------------------------
(***************************************************************************)
(* What the token economy of a squad promises, without ages, requests,     *)
(* priorities and plans: who may lay suppressing fire or move, and which   *)
(* element has its turn.                                                   *)
(*                                                                         *)
(* Between the squad's rounds a soldier gains and loses tokens only by     *)
(* what it does, or what happens to it, itself.  Tokens go to those who    *)
(* are fit, within the limit, and never to the fallen; and when an element *)
(* gets its turn, nobody keeps a token to move of its own.                 *)
(***************************************************************************)
EXTENDS Integers, FiniteSets

CONSTANTS
  Member,     \* the soldiers
  Type,       \* the types of tokens in use; the one to move is "Movement"
  Element,    \* the elements that take turns
  None        \* no element's turn; not one of Element

VARIABLES
  fit,        \* the members in action
  fallen,     \* the members that died
  limit,      \* [Type -> how many tokens may be out]
  lease,      \* [Type -> the members with a token of their own]
  turn        \* the element that moves as a whole, or None

leaseVars == <<fit, fallen, limit, lease, turn>>

LeaseInit ==
  /\ fit = Member
  /\ fallen = {}
  /\ limit \in [Type -> Nat]
  /\ lease = [t \in Type |-> {}]
  /\ turn = None

\* The tokens of type t that are out, the element's included.
Out(t) == Cardinality(lease[t]) + (IF t = "Movement" /\ turn # None THEN 1 ELSE 0)

\* A soldier asks and gets a token at once.
Ask(m) ==
  \E t \in Type :
    /\ m \in fit \ fallen
    /\ m \notin lease[t]
    /\ Out(t) < limit[t]
    /\ lease' = [lease EXCEPT ![t] = @ \cup {m}]
    /\ UNCHANGED <<fit, fallen, limit, turn>>

\* A soldier gives its token back.
GiveBack(m) ==
  \E t \in Type :
    /\ lease' = [lease EXCEPT ![t] = @ \ {m}]
    /\ UNCHANGED <<fit, fallen, limit, turn>>

\* A soldier dies, and its tokens are free.
Fall(m) ==
  /\ m \notin fallen
  /\ fallen' = fallen \cup {m}
  /\ fit' = fit \ {m}
  /\ lease' = [t \in Type |-> lease[t] \ {m}]
  /\ UNCHANGED <<limit, turn>>

\* A soldier leaves the action; its tokens stay with it until a round takes them back.
Vanish(m) ==
  /\ fit' = fit \ {m}
  /\ UNCHANGED <<fallen, limit, lease, turn>>

\* The members that a round gives a token to.
Fresh(t) == lease'[t] \ lease[t]

\* In a round the squad finds out who is fit, sets the limits, and takes tokens back; what it
\* gives out goes to the fit, within the limit.
Deal ==
  /\ fit' \subseteq Member \ fallen
  /\ fallen' = fallen
  /\ limit' \in [Type -> Nat]
  /\ lease' \in [Type -> SUBSET Member]
  /\ \A t \in Type : Fresh(t) # {} => Fresh(t) \subseteq fit' /\ Out(t)' <= limit'[t]

\* A round in which the element that has its turn keeps it or loses it.
Round == Deal /\ turn' \in {turn, None}

\* A round that gives an element its turn: nobody else may move.
HandOver ==
  /\ Deal
  /\ turn' \in Element
  /\ \A t \in Type : t = "Movement" => lease'[t] = {}

LeaseNext ==
  \/ \E m \in Member : Ask(m) \/ GiveBack(m) \/ Fall(m) \/ Vanish(m)
  \/ Round
  \/ HandOver

LeaseSpec == LeaseInit /\ [][LeaseNext]_leaseVars
=============================================================================
