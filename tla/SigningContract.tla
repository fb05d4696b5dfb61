--------------------------- MODULE SigningContract ---------------------------
(***************************************************************************)
(* What the managed signer promises whoever submits, reviews and approves, *)
(* with every operation done at once: no transactions, replicas, locks or  *)
(* key service.  SignerService implements it.                              *)
(*                                                                         *)
(* A request is absent, pending until an expiry, or signed for good.  It   *)
(* is signed only when an approver has reviewed it with the expiry it has  *)
(* at that moment, and requests that are signed are never given up.        *)
(***************************************************************************)
EXTENDS Naturals, FiniteSets

CONSTANTS
    Id,            \* request ids: a key and a manifest each
    SignatureOf(_),\* the signature of a request
    Time,
    Limit          \* requests kept

VARIABLES
    pending,       \* <<id, expiry>> of the requests that wait for an approval
    signed,        \* <<id, signature>> of the completed ones
    reviewed       \* <<id, expiry>> pairs shown to the approver

Ids(pairs) == {pair[1] : pair \in pairs}

Init == pending = {} /\ signed = {} /\ reviewed = {}

\* Old pending requests make room.  The submitted one becomes pending or has its
\* expiry extended, unless it is pending or signed as it is.
Submit(i, old, expires) ==
    LET kept == pending \ old
    IN  /\ old \subseteq pending
        /\ \/ pending' = kept
           \/ /\ i \notin Ids(signed)
              /\ \A seen \in kept : seen[1] = i => seen[2] < expires
              /\ pending' = {seen \in kept : seen[1] # i} \cup {<<i, expires>>}
        /\ Cardinality(pending' \cup signed) <= Limit
        /\ UNCHANGED <<signed, reviewed>>

Review(i, expires) ==
    /\ <<i, expires>> \in pending \/ i \in Ids(signed)
    /\ reviewed' = reviewed \cup {<<i, expires>>}
    /\ UNCHANGED <<pending, signed>>

Approve(i, expires) ==
    /\ <<i, expires>> \in pending \cap reviewed
    /\ pending' = pending \ {<<i, expires>>}
    /\ signed' = signed \cup {<<i, SignatureOf(i)>>}
    /\ UNCHANGED reviewed

Next == \E i \in Id, expires \in Time :
    \/ \E old \in SUBSET pending : Submit(i, old, expires)
    \/ Review(i, expires)
    \/ Approve(i, expires)

Spec == Init /\ [][Next]_<<pending, signed, reviewed>>
=============================================================================
