------------------------------ MODULE GakeRounds ------------------------------
(***************************************************************************)
(* gake.c and gake_qrom.c, which differ only in the functions they call:   *)
(* the group exchange of the library over an array of Party, run           *)
(* round by round by its callers (test_gake.c, the speed tests).  Keys are *)
(* sets of independent random values, so that XOR is the symmetric         *)
(* difference and zero the empty set.  A two_ake gives both sides one      *)
(* fresh key (KyberKex), a commitment opens only to what it was made of    *)
(* (KyberCommitment).                                                      *)
(***************************************************************************)
EXTENDS Integers, FiniteSets, SequencesExt

CONSTANTS
    MaxParties,     \* bound on num_parties
    MaxChanged      \* bound on broadcast values that arrive changed

VARIABLES num_parties, pc, i, parties, changed, sent

vars == <<num_parties, pc, i, parties, changed, sent>>

Parties == 0 .. num_parties - 1

Zero == {}
Xor(a, b) == (a \ b) \union (b \ a)

\* utils.c; / truncates towards zero.
mod(x, y) == LET quotient == IF x < 0 THEN -((-x) \div y) ELSE x \div y
                 t == x - quotient * y
             IN  IF t < 0 THEN t + y ELSE t

PerParty(n, v) == [j \in 0 .. n-1 |-> v]

NoCommitment == [by |-> -1, m |-> Zero, index |-> -1, coins |-> Zero]

\* init_parties.
Init ==
    /\ num_parties \in 1 .. MaxParties
    /\ parties = [p \in Parties |->
          [key_left |-> Zero, key_right |-> Zero,
           xs |-> PerParty(num_parties, Zero), coins |-> PerParty(num_parties, Zero),
           commitments |-> PerParty(num_parties, NoCommitment),
           masterkey |-> PerParty(num_parties, Zero),
           sk |-> <<>>, sid |-> <<>>, acc |-> 0, term |-> 0]]
    /\ pc = "round12" /\ i = 0 /\ changed = 0 /\ sent = <<>>

Fresh(name) == {<<name, i>>}

GoTo(next) == IF i + 1 < num_parties THEN pc' = pc /\ i' = i + 1 ELSE pc' = next /\ i' = 0

\* Both keys of party i; its neighbours' keys on their sides of it are replaced too.
compute_left_right_keys ==
    LET right == mod(i + 1, num_parties)
        left  == mod(i - 1, num_parties)
        step1 == [[parties EXCEPT ![i].key_right = Fresh("right")] EXCEPT ![right].key_left = Fresh("right")]
    IN  /\ pc = "round12"
        /\ parties' = [[step1 EXCEPT ![i].key_left = Fresh("left")] EXCEPT ![left].key_right = Fresh("left")]
        /\ GoTo("round3")
        /\ UNCHANGED <<num_parties, changed, sent>>

\* What commit makes: equal only for equal owner, message and coins.
Commitment(owner, x, index, coins) == [by |-> owner, m |-> x, index |-> index, coins |-> coins]

\* Xi and ri of party i reach everyone, itself included.
compute_xs_commitments ==
    LET xi == Xor(parties[i].key_right, parties[i].key_left)
        ri == Fresh("coins")
        ci == Commitment(i, xi, i, ri)
    IN  /\ pc = "round3"
        /\ parties' = [p \in Parties |->
              [parties[p] EXCEPT !.xs[i] = xi, !.coins[i] = ri, !.commitments[i] = ci]]
        /\ sent' = Append(sent, [x |-> xi, coins |-> ri, commitment |-> ci])
        /\ GoTo("round4")
        /\ UNCHANGED <<num_parties, changed>>

\* A value of party k has reached party p changed, by an error of its own: no two of them
\* cancel out.
Change ==
    /\ pc = "round4" /\ i = 0 /\ changed < MaxChanged
    /\ changed' = changed + 1
    /\ \E p, k \in Parties : LET error == {<<"error", changed>>} IN
          \/ parties' = [parties EXCEPT ![p].xs[k] = Xor(@, error)]
          \/ parties' = [parties EXCEPT ![p].coins[k] = Xor(@, error)]
          \/ parties' = [parties EXCEPT ![p].commitments[k].m = Xor(@, error)]
    /\ UNCHANGED <<num_parties, pc, i, sent>>

\* The last X is left out.
check_xs_SkipsLast(p) == FoldLeft(Xor, p.xs[0], [j \in 1 .. num_parties - 2 |-> p.xs[j]]) = Zero

\* 0 when the XOR of all Xs is zero.
check_xs(p) == FoldLeft(Xor, p.xs[0], [j \in 1 .. num_parties - 1 |-> p.xs[j]]) = Zero

\* The result of the last comparison is the result of the loop.
check_commitments_LastOnly(p) ==
    LET j == num_parties - 1 IN Commitment(j, p.xs[j], j, p.coins[j]) = p.commitments[j]

check_commitments(p) ==
    \A j \in Parties : Commitment(j, p.xs[j], j, p.coins[j]) = p.commitments[j]

\* The program of the tests ends at the first party that refuses.
Round4 ==
    /\ pc = "round4"
    /\ IF check_xs(parties[i]) /\ check_commitments(parties[i])
       THEN GoTo("masterkey") /\ UNCHANGED parties
       ELSE /\ pc' = "refused" /\ UNCHANGED i
            /\ parties' = [parties EXCEPT ![i].acc = 0, ![i].term = 1]
    /\ UNCHANGED <<num_parties, changed, sent>>

\* From the own left key leftwards: masterkey[i-j] is the left key of party i-j.
MasterKey(me, p) ==
    LET mk[j \in 0 .. num_parties - 1] ==
            IF j = 0 THEN p.key_left ELSE Xor(p.xs[mod(me - j, num_parties)], mk[j-1])
    IN  [q \in Parties |-> mk[mod(me - q, num_parties)]]

compute_masterkey ==
    /\ pc = "masterkey"
    /\ parties' = [parties EXCEPT ![i].masterkey = MasterKey(i, parties[i])]
    /\ GoTo("keys")
    /\ UNCHANGED <<num_parties, changed, sent>>

\* concat_masterkey puts all keys and pids together, but hash_g takes 2*KEX_SSBYTES:
\* the first two keys, or the only one and what is on the stack after its pid.
Hashed(mk) == IF num_parties = 1 THEN <<mk[0], {<<"stack", 0>>}>> ELSE <<mk[0], mk[1]>>

compute_sk_sid ==
    /\ pc = "keys"
    /\ parties' = [parties EXCEPT ![i].sk  = <<"sk", Hashed(parties[i].masterkey)>>,
                                  ![i].sid = <<"sid", Hashed(parties[i].masterkey)>>,
                                  ![i].acc = 1, ![i].term = 1]
    /\ GoTo("done")
    /\ UNCHANGED <<num_parties, changed, sent>>

\* 1 when two parties next to each other in the array differ.
check_all_keys ==
    IF \E p \in 0 .. num_parties - 2 :
          parties[p].sk # parties[p+1].sk \/ parties[p].sid # parties[p+1].sid
    THEN 1 ELSE 0

Next == \/ compute_left_right_keys \/ compute_xs_commitments \/ Change
        \/ Round4 \/ compute_masterkey \/ compute_sk_sid

Spec == Init /\ [][Next]_vars /\ WF_vars(Next)
-----------------------------------------------------------------------------
\* After round 2 every pair of neighbours shares a key, although each key has been
\* written twice, by the runs of both its owners and also when left is right.
NeighboursShareKeys ==
    pc # "round12" => \A p \in Parties :
        parties[p].key_right = parties[mod(p + 1, num_parties)].key_left

\* A party goes on only with what all the others have sent.
AcceptsOnlySent ==
    \A p \in Parties : pc \in {"masterkey", "keys", "done"} \/ (pc = "round4" /\ p < i) =>
        \A k \in Parties : /\ parties[p].xs[k] = sent[k+1].x
                           /\ parties[p].coins[k] = sent[k+1].coins
                           /\ parties[p].commitments[k] = sent[k+1].commitment

\* Everyone computes the left keys of everyone, in the same order.
MasterKeysAreLeftKeys ==
    pc \in {"keys", "done"} => \A p, q \in Parties : parties[p].masterkey[q] = parties[q].key_left

\* When all accept they have one session key and one session identifier.
AllKeysEqual ==
    pc = "done" => /\ check_all_keys = 0
                   /\ \A p, q \in Parties : parties[p].sk = parties[q].sk /\ parties[p].sid = parties[q].sid

\* Unless a value has arrived changed, everyone accepts.
HonestRunAccepts == (changed = 0) ~> (pc = "done" \/ changed > 0)
=============================================================================
