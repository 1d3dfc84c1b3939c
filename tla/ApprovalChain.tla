--------------------------- MODULE ApprovalChain ---------------------------
(***************************************************************************)
(* What the review of a ticket promises, with no rows, copies or requests: *)
(* the groups of the chain sign one after the other, each at its turn, the *)
(* ticket is granted with the last signature, and a refusal is final.      *)
(***************************************************************************)
EXTENDS Naturals, Sequences

CONSTANT Chain   \* the groups, in the order in which they sign

VARIABLES verdict, \* "new", "open", "granted" or "refused"
          stage,   \* how many groups have signed while it is open or granted
          signed   \* the groups that signed

chainVars == <<verdict, stage, signed>>

ChainInit == verdict = "new" /\ stage = 0 /\ signed = {}

\* The system opens the chain, or decides by itself.
Submit ==
  /\ verdict = "new"
  /\ verdict' \in {"open", "granted", "refused"}
  /\ UNCHANGED <<stage, signed>>

\* The next group in line signs.
Sign ==
  /\ verdict = "open"
  /\ stage' = stage + 1
  /\ signed' = signed \cup {Chain[stage + 1]}
  /\ verdict' = IF stage' = Len(Chain) THEN "granted" ELSE "open"

\* A reviewer rejects, or the submitter withdraws, also after the last signature.
Refuse ==
  /\ verdict \in {"open", "granted"}
  /\ verdict' = "refused"
  /\ stage' = 0
  /\ UNCHANGED signed

ChainSpec == ChainInit /\ [][Submit \/ Sign \/ Refuse]_chainVars
=============================================================================
