------------------------------ MODULE Commitment ------------------------------
(***************************************************************************)
(* What is in a ballot.  For every candidate the voter's page splits 1 or  *)
(* 0 into one share per teller (generate_vote of common/Elliptic.js and of *)
(* autoscript/autovote.js), commits to each share x with a random y in the *)
(* point z = g^x h^y, and proves of the product of the z's, and of their   *)
(* product over all candidates, that the committed value is 0 or 1.  The   *)
(* teller checks the shares, the ESP the proofs.  After the election every *)
(* teller publishes the sums of its x's and y's, the ESP checks them       *)
(* against the product of the z's and adds them up.                        *)
(*                                                                         *)
(* A point is the pair of its exponents to the bases g and h, both modulo  *)
(* the order q of the curve: nobody knows h as a power of g.  The native   *)
(* library (src/native) computes with numbers that are not reduced unless  *)
(* its caller asks for it.  The hash of a proof may be any number.         *)
(***************************************************************************)
EXTENDS Integers, Sequences, FiniteSetsExt

CONSTANTS q,          \* the order of the curve
          N,          \* tellers
          C,          \* candidates
          Rand,       \* bound: what BN_rand_range may return
          Hashes,     \* bound: what SHA-256 may return
          MaxBallots  \* bound: ballots of the election

Tellers == 1 .. N
Cand == 0 .. C - 1
Blank == -1   \* pos.cid of a vote for no candidate

ASSUME OrderAssumption == q \in Nat /\ q > 1
ASSUME PrimeAssumption == \A a, b \in 1 .. q - 1 : (a * b) % q # 0
ASSUME ElectionAssumption ==
    /\ N \in Nat \ {0} /\ C \in Nat \ {0} /\ MaxBallots \in Nat
    /\ Rand \subseteq 0 .. q - 1 /\ Hashes \subseteq Nat

-----------------------------------------------------------------------------
(* The native library.                                                     *)

Residue == 0 .. q - 1
Point == [g : Residue, h : Residue]

\* gen_z: EC_POINT_mul, g^x h^y.
gen_z(x, y) == [g |-> x % q, h |-> y % q]

Infinity == gen_z(0, 0)
g_inv == gen_z(-1, 0)

\* addMPoint: EC_POINT_add.
Mult(P, Q) == gen_z(P.g + Q.g, P.h + Q.h)

\* EC_POINTs_mul with the points h and z: h^f z^e.
HTimes(f, z, e) == gen_z(z.g * e, f + z.h * e)

verify_xyz(x, y, z) == gen_z(x, y) = z

\* What proof_01 draws before it hashes.
Draw == [r : Rand, e_bar : Rand, f_bar : Rand]

\* Mutant: e_b times y is not subtracted from r but from f_bar.
proof_01_bar(z, y, b, draw, e) ==
    LET e_b == (e - draw.e_bar) % q
        f_b == (draw.f_bar - ((e_b * y) % q)) % q
        bar == HTimes(draw.f_bar, IF b = 1 THEN z ELSE Mult(g_inv, z),
                      draw.e_bar)
        own == gen_z(0, draw.r)
    IN  IF b = 1
        THEN [d0 |-> bar, e0 |-> draw.e_bar, f0 |-> draw.f_bar,
              d1 |-> own, e1 |-> e_b, f1 |-> f_b]
        ELSE [d0 |-> own, e0 |-> e_b, f0 |-> f_b,
              d1 |-> bar, e1 |-> draw.e_bar, f1 |-> draw.f_bar]

\* The proof that z commits to 0 or to 1: with y for the value b, simulated
\* from e_bar and f_bar for the other one.  e is the hash of z, d0 and d1.
proof_01(z, y, b, draw, e) ==
    LET e_b == (e - draw.e_bar) % q
        f_b == (draw.r - ((e_b * y) % q)) % q
        bar == HTimes(draw.f_bar, IF b = 1 THEN z ELSE Mult(g_inv, z),
                      draw.e_bar)
        own == gen_z(0, draw.r)
    IN  IF b = 1
        THEN [d0 |-> bar, e0 |-> draw.e_bar, f0 |-> draw.f_bar,
              d1 |-> own, e1 |-> e_b, f1 |-> f_b]
        ELSE [d0 |-> own, e0 |-> e_b, f0 |-> f_b,
              d1 |-> bar, e1 |-> draw.e_bar, f1 |-> draw.f_bar]

verify_proof_01(p, z, e) ==
    /\ ((e - p.e0) - p.e1) % q = 0
    /\ HTimes(p.f0, z, p.e0) = p.d0
    /\ HTimes(p.f1, Mult(g_inv, z), p.e1) = p.d1

-----------------------------------------------------------------------------
VARIABLES
    step,     \* "idle", or the ballot: "share", "prove", "cast"; "counted"
    choice,   \* the voter's candidate
    commits,  \* the shares made so far: one function of Cand per teller
    sumX, sumY, sumZ,  \* per candidate, over the tellers (not reduced)
    proved,   \* candidates whose proof is made
    curSumY, curSumZ,  \* over those candidates
    accepted, \* the ESP has accepted the proofs so far
    tally,    \* per teller and candidate: its sums of x and y (not reduced)
    product,  \* per teller and candidate: the ESP's product of the z's
    votes,    \* what was voted
    ballots,
    result    \* the ESP's final result

sums == <<sumX, sumY, sumZ>>
proofs == <<proved, curSumY, curSumZ, accepted>>
totals == <<tally, product, votes, ballots>>
vars == <<step, choice, commits, sums, proofs, totals, result>>

NoResult == [verified |-> FALSE, x |-> [k \in Cand |-> 0],
             y |-> [k \in Cand |-> 0]]

Init ==
    /\ step = "idle" /\ choice = Blank /\ commits = <<>>
    /\ sumX = [k \in Cand |-> 0] /\ sumY = sumX
    /\ sumZ = [k \in Cand |-> Infinity]
    /\ proved = 0 /\ curSumY = 0 /\ curSumZ = Infinity /\ accepted = TRUE
    /\ tally = [i \in Tellers |-> [k \in Cand |-> [x |-> 0, y |-> 0]]]
    /\ product = [i \in Tellers |-> [k \in Cand |-> Infinity]]
    /\ votes = [k \in Cand |-> 0] /\ ballots = 0
    /\ result = NoResult

\* generate_vote is called.
Vote(cid) ==
    /\ step = "idle" /\ ballots < MaxBallots
    /\ step' = "share" /\ choice' = cid /\ commits' = <<>>
    /\ sumX' = [k \in Cand |-> 0] /\ sumY' = sumX'
    /\ sumZ' = [k \in Cand |-> Infinity]
    /\ proved' = 0 /\ curSumY' = 0 /\ curSumZ' = Infinity /\ accepted' = TRUE
    /\ UNCHANGED <<totals, result>>

Bit(k) == IF k = choice THEN 1 ELSE 0

\* The values of the next teller: random, and for the last one what is missing.
LastTeller == Len(commits) = N - 1
Xs == IF LastTeller THEN {[k \in Cand |-> (Bit(k) - sumX[k]) % q]}
                    ELSE [Cand -> Rand]

Share ==
    /\ step = "share"
    /\ \E x \in Xs, y \in [Cand -> Rand] :
         LET z == [k \in Cand |-> gen_z(x[k], y[k])]
         IN  /\ commits' = Append(commits,
                    [k \in Cand |-> [x |-> x[k], y |-> y[k], z |-> z[k]]])
             /\ sumX' = [k \in Cand |-> sumX[k] + x[k]]
             /\ sumY' = [k \in Cand |-> sumY[k] + y[k]]
             /\ sumZ' = [k \in Cand |-> Mult(sumZ[k], z[k])]
    /\ step' = IF LastTeller THEN "prove" ELSE "share"
    /\ UNCHANGED <<choice, proofs, totals, result>>

\* A proof is made by the page and checked by the ESP, whose zs[j] is the same
\* product as the page's sumZ[j].
Check(z, y, b) ==
    \E draw \in Draw, e \in Hashes :
        accepted' = (accepted /\
                     verify_proof_01(proof_01(z, y, b, draw, e), z, e))

ProveCandidate ==
    /\ step = "prove" /\ proved < C
    /\ Check(sumZ[proved], sumY[proved], Bit(proved))
    /\ proved' = proved + 1
    /\ curSumY' = curSumY + sumY[proved]
    /\ curSumZ' = Mult(curSumZ, sumZ[proved])
    /\ UNCHANGED <<step, choice, commits, sums, totals, result>>

\* The last proof: at most one candidate has the vote.
ProveTotal ==
    /\ step = "prove" /\ proved = C
    /\ Check(curSumZ, curSumY, IF choice >= 0 THEN 1 ELSE 0)
    /\ step' = "cast"
    /\ UNCHANGED <<choice, commits, sums, proved, curSumY, curSumZ, totals,
                   result>>

\* Every teller's saveVote.
SharesVerify ==
    \A i \in Tellers, k \in Cand :
        verify_xyz(commits[i][k].x, commits[i][k].y, commits[i][k].z)

\* Mutant: a teller's y's are not added up.
CastXOnly ==
    /\ step = "cast"
    /\ step' = "idle"
    /\ IF accepted /\ SharesVerify
       THEN /\ tally' = [i \in Tellers |-> [k \in Cand |->
                  [x |-> tally[i][k].x + commits[i][k].x,
                   y |-> commits[i][k].y]]]
            /\ product' = [i \in Tellers |-> [k \in Cand |->
                  Mult(product[i][k], commits[i][k].z)]]
       ELSE UNCHANGED <<tally, product>>
    /\ votes' = [k \in Cand |-> votes[k] + Bit(k)]
    /\ ballots' = ballots + 1
    /\ UNCHANGED <<choice, commits, sums, proofs, result>>

\* The ballot is saved, and will be in the teller's sums (addResult) and in
\* the ESP's products (multResultZ).
Cast ==
    /\ step = "cast"
    /\ step' = "idle"
    /\ IF accepted /\ SharesVerify
       THEN /\ tally' = [i \in Tellers |-> [k \in Cand |->
                  [x |-> tally[i][k].x + commits[i][k].x,
                   y |-> tally[i][k].y + commits[i][k].y]]]
            /\ product' = [i \in Tellers |-> [k \in Cand |->
                  Mult(product[i][k], commits[i][k].z)]]
       ELSE UNCHANGED <<tally, product>>
    /\ votes' = [k \in Cand |-> votes[k] + Bit(k)]
    /\ ballots' = ballots + 1
    /\ UNCHANGED <<choice, commits, sums, proofs, result>>

\* What a teller publishes.
CountX(i, k) == tally[i][k].x % q
CountY(i, k) == tally[i][k].y % q

\* verifyResult, for all tellers.
CountsVerify ==
    \A i \in Tellers, k \in Cand :
        verify_xyz(CountX(i, k), CountY(i, k), product[i][k])

\* Sums and products over the tellers.
SumOver(counts) == MapThenSumSet(LAMBDA i : counts[i], Tellers)
ProductOver(points) ==
    MapThenFoldSet(Mult, Infinity, LAMBDA i : points[i],
                   LAMBDA s : CHOOSE i \in s : TRUE, Tellers)

\* Mutant: the final sums are not reduced.
CountUnreduced ==
    /\ step = "idle"
    /\ step' = "counted"
    /\ result' =
         [verified |-> CountsVerify,
          x |-> [k \in Cand |-> SumOver([i \in Tellers |-> CountX(i, k)])],
          y |-> [k \in Cand |-> SumOver([i \in Tellers |-> CountY(i, k)])]]
    /\ UNCHANGED <<choice, commits, sums, proofs, totals>>

\* The tellers' counts, and the ESP's verification and sum of them.
Count ==
    /\ step = "idle"
    /\ step' = "counted"
    /\ result' =
         [verified |-> CountsVerify,
          x |-> [k \in Cand |-> SumOver([i \in Tellers |-> CountX(i, k)]) % q],
          y |-> [k \in Cand |-> SumOver([i \in Tellers |-> CountY(i, k)]) % q]]
    /\ UNCHANGED <<choice, commits, sums, proofs, totals>>

\* The election is over.
Counted == step = "counted" /\ UNCHANGED vars

Next ==
    \/ \E cid \in Cand \cup {Blank} : Vote(cid)
    \/ Share
    \/ ProveCandidate
    \/ ProveTotal
    \/ Cast
    \/ Count
    \/ Counted

Spec == Init /\ [][Next]_vars

-----------------------------------------------------------------------------
(* Properties.                                                             *)

BallotTypeOK ==
    /\ step \in {"idle", "share", "prove", "cast", "counted"}
    /\ choice \in Cand \cup {Blank}
    /\ commits \in Seq([Cand -> [x : Residue, y : Residue, z : Point]])
    /\ sumX \in [Cand -> Nat] /\ sumY \in [Cand -> Nat]
    /\ sumZ \in [Cand -> Point]
    /\ proved \in 0 .. C
    /\ curSumY \in Nat /\ curSumZ \in Point
    /\ accepted \in BOOLEAN
    /\ tally \in [Tellers -> [Cand -> [x : Nat, y : Nat]]]
    /\ product \in [Tellers -> [Cand -> Point]]

TypeOK ==
    /\ BallotTypeOK
    /\ Len(commits) <= N
    /\ votes \in [Cand -> Nat]
    /\ ballots \in 0 .. MaxBallots
    /\ result \in [verified : BOOLEAN, x : [Cand -> Residue],
                   y : [Cand -> Residue]]

\* The ESP accepts every proof of a page that runs generate_vote
\* (esp/saveVote.js:200, Elliptic.cc:112-161), whatever the random numbers, the
\* hashes, the number of tellers and candidates, and the vote.
HonestBallotAccepted == accepted

\* The final sums (finallyTallying.js:83-138) are those of the votes: each
\* teller's sums verify against the ESP's product, the x's add up to the votes
\* although no teller knew one, and x and y open the product of everything, as
\* offlineVerify.js:172-187 checks it.
ResultIsCount ==
    step = "counted" =>
        /\ result.verified
        /\ \A k \in Cand :
             /\ result.x[k] = votes[k] % q
             /\ verify_xyz(result.x[k], result.y[k],
                           ProductOver([i \in Tellers |-> product[i][k]]))
=============================================================================
