-------------------------- MODULE Commitment_proofs --------------------------
(***************************************************************************)
(* Proofs about Commitment for every order, number of tellers and          *)
(* candidates, and all random numbers and hashes.                          *)
(***************************************************************************)
EXTENDS Commitment, Folding_proofs

-----------------------------------------------------------------------------
(* Arithmetic modulo q.                                                    *)

\* A residue is below q.
LEMMA ModRange == ASSUME NEW a \in Int PROVE a % q \in Residue
BY OrderAssumption, SMT DEF Residue

\* Division with remainder.
LEMMA ModDivides ==
    ASSUME NEW a \in Int
    PROVE  \E k \in Int : a = q * k + (a % q)
<1> DEFINE k == a \div q
<1>1. k \in Int  BY OrderAssumption
<1>2. a = q * k + (a % q)  BY OrderAssumption, SMT
<1> QED BY <1>1, <1>2

\* The remainder is unique.
LEMMA ModUnique ==
    ASSUME NEW a \in Int, NEW k \in Int, NEW r \in Residue, a = q * k + r
    PROVE  a % q = r
BY OrderAssumption, SMT DEF Residue

\* Numbers that differ by a multiple of q have the same residue.
LEMMA ModSame ==
    ASSUME NEW a \in Int, NEW b \in Int, NEW k \in Int, a = b + q * k
    PROVE  a % q = b % q
<1>1. PICK l \in Int : b = q * l + (b % q)  BY ModDivides
<1>2. b % q \in Residue  BY ModRange
<1>3. a = q * (l + k) + (b % q)
  BY <1>1, <1>2, OrderAssumption, SMT DEF Residue
<1> QED BY <1>2, <1>3, ModUnique

\* Numbers with the same residue differ by a multiple of q.
LEMMA ModDiffer ==
    ASSUME NEW a \in Int, NEW b \in Int, a % q = b % q
    PROVE  \E k \in Int : a = b + q * k
<1>1. PICK l \in Int : b = q * l + (b % q)  BY ModDivides
<1>2. PICK m \in Int : a = q * m + (a % q)  BY ModDivides
<1>3. a % q \in Residue  BY ModRange
<1>4. a = b + q * (m - l)
  BY <1>1, <1>2, <1>3, OrderAssumption, SMT DEF Residue
<1> QED BY <1>4

\* A residue is its own residue.
LEMMA ModIdem ==
    ASSUME NEW a \in Int
    PROVE  (a % q) \in Int /\ (a % q) % q = a % q
<1>1. a % q \in Residue  BY ModRange
<1>2. a % q = q * 0 + (a % q)  BY <1>1, OrderAssumption, SMT DEF Residue
<1> QED BY <1>1, <1>2, ModUnique, OrderAssumption DEF Residue

\* Residues of sums, differences and products depend on residues only.
LEMMA ModAdd ==
    ASSUME NEW a \in Int, NEW b \in Int, NEW c \in Int, NEW d \in Int,
           a % q = c % q, b % q = d % q
    PROVE  (a + b) % q = (c + d) % q
<1>1. PICK l \in Int : a = c + q * l  BY ModDiffer
<1>2. PICK m \in Int : b = d + q * m  BY ModDiffer
<1>3. a + b = (c + d) + q * (l + m)  BY <1>1, <1>2, OrderAssumption, SMT
<1> QED BY <1>3, ModSame

LEMMA ModSub ==
    ASSUME NEW a \in Int, NEW b \in Int, NEW c \in Int, NEW d \in Int,
           a % q = c % q, b % q = d % q
    PROVE  (a - b) % q = (c - d) % q
<1>1. PICK l \in Int : a = c + q * l  BY ModDiffer
<1>2. PICK m \in Int : b = d + q * m  BY ModDiffer
<1>3. a - b = (c - d) + q * (l - m)  BY <1>1, <1>2, OrderAssumption, SMT
<1> QED BY <1>3, ModSame

LEMMA ModTimes ==
    ASSUME NEW a \in Int, NEW b \in Int, NEW c \in Int, NEW d \in Int,
           a % q = c % q, b % q = d % q
    PROVE  (a * b) % q = (c * d) % q
<1>1. PICK l \in Int : a = c + q * l  BY ModDiffer
<1>2. PICK m \in Int : b = d + q * m  BY ModDiffer
<1>3. a * b = (c * d) + q * (c * m + l * d + q * l * m)
  BY <1>1, <1>2, OrderAssumption, SMT
<1>4. c * m + l * d + q * l * m \in Int  BY OrderAssumption
<1>5. a * b \in Int /\ c * d \in Int  OBVIOUS
<1> QED BY <1>3, <1>4, <1>5, ModSame

\* q is prime: a product is 0 only if a factor is.
LEMMA NoZeroDivisors ==
    ASSUME NEW a \in Int, NEW b \in Int, (a * b) % q = 0
    PROVE  a % q = 0 \/ b % q = 0
<1> DEFINE c == a % q  d == b % q
<1>1. c \in Residue /\ d \in Residue  BY ModRange
<1>2. c \in Int /\ c % q = a % q /\ d \in Int /\ d % q = b % q  BY ModIdem
<1>3. (c * d) % q = 0  BY <1>2, ModTimes
<1>4. CASE c # 0 /\ d # 0
  <2>1. c \in 1 .. q - 1 /\ d \in 1 .. q - 1
    BY <1>1, <1>4, OrderAssumption DEF Residue
  <2> HIDE DEF c, d
  <2> QED BY <2>1, <1>3, PrimeAssumption
<1> QED BY <1>4

-----------------------------------------------------------------------------
(* Points.                                                                 *)

LEMMA GenType ==
    ASSUME NEW a \in Int, NEW b \in Int
    PROVE  gen_z(a, b) \in Point
BY ModRange DEF gen_z, Point

\* Equal residues of the exponents make equal points.
LEMMA GenEqual ==
    ASSUME NEW a \in Int, NEW b \in Int, NEW c \in Int, NEW d \in Int,
           a % q = c % q, b % q = d % q
    PROVE  gen_z(a, b) = gen_z(c, d)
BY DEF gen_z

\* Reducing the numbers first gives the same point.
LEMMA GenReduced ==
    ASSUME NEW a \in Int, NEW b \in Int
    PROVE  gen_z(a % q, b % q) = gen_z(a, b)
<1>1. (a % q) % q = a % q /\ (b % q) % q = b % q  BY ModIdem
<1> QED BY <1>1 DEF gen_z

\* Adding points adds what they commit to: numbers that nobody has reduced.
LEMMA MultGen ==
    ASSUME NEW a \in Int, NEW b \in Int, NEW c \in Int, NEW d \in Int
    PROVE  Mult(gen_z(a, b), gen_z(c, d)) = gen_z(a + c, b + d)
<1>1. /\ a % q \in Int /\ (a % q) % q = a % q
      /\ b % q \in Int /\ (b % q) % q = b % q
      /\ c % q \in Int /\ (c % q) % q = c % q
      /\ d % q \in Int /\ (d % q) % q = d % q
  BY ModIdem
<1>2. ((a % q) + (c % q)) % q = (a + c) % q  BY <1>1, ModAdd
<1>3. ((b % q) + (d % q)) % q = (b + d) % q  BY <1>1, ModAdd
<1> QED BY <1>2, <1>3 DEF Mult, gen_z

LEMMA HTimesGen ==
    ASSUME NEW a \in Int, NEW b \in Int, NEW e \in Int, NEW f \in Int
    PROVE  HTimes(f, gen_z(a, b), e) = gen_z(a * e, f + b * e)
<1>1. /\ a % q \in Int /\ (a % q) % q = a % q
      /\ b % q \in Int /\ (b % q) % q = b % q
  BY ModIdem
<1>2. ((a % q) * e) % q = (a * e) % q  BY <1>1, ModTimes
<1>3. ((b % q) * e) % q = (b * e) % q  BY <1>1, ModTimes
<1>4. (b % q) * e \in Int /\ b * e \in Int  BY <1>1
<1>5. (f + (b % q) * e) % q = (f + b * e) % q  BY <1>3, <1>4, ModAdd
<1> QED BY <1>2, <1>5 DEF HTimes, gen_z

-----------------------------------------------------------------------------
(* The proof that a commitment is to 0 or 1.                               *)

\* The answer to the hash that belongs to the true value: h^f z^e = h^r when z
\* commits to 0 and f = r - e y.
LEMMA OwnAnswer ==
    ASSUME NEW a \in Int, NEW y \in Int, NEW r \in Int, NEW e \in Int,
           a % q = 0
    PROVE  HTimes((r - ((e * y) % q)) % q, gen_z(a, y), e) = gen_z(0, r)
<1> DEFINE f == (r - ((e * y) % q)) % q
<1>1. e * y \in Int /\ a * e \in Int /\ y * e \in Int  OBVIOUS
<1>2. (e * y) % q \in Int /\ ((e * y) % q) % q = (e * y) % q
  BY <1>1, ModIdem
<1>3. (r - ((e * y) % q)) % q = (r - e * y) % q  BY <1>1, <1>2, ModSub
<1>4. f \in Int /\ f % q = f  BY <1>2, ModIdem
<1>5. r - e * y \in Int  BY <1>1
<1>6. (f + y * e) % q = ((r - e * y) + y * e) % q
  BY <1>1, <1>3, <1>4, <1>5, ModAdd
<1>7. (r - e * y) + y * e = r  BY <1>1, SMT
<1>8. (a * e) % q = 0 % q
  <2>1. a % q = 0 % q  BY ModUnique, OrderAssumption, SMT DEF Residue
  <2>2. 0 \in Int  OBVIOUS
  <2>3. PICK k \in Int : a = 0 + q * k  BY <2>1, <2>2, ModDiffer
  <2>5. a * e = 0 * e + q * (k * e)  BY <2>3, OrderAssumption, SMT
  <2>6. k * e \in Int /\ 0 * e \in Int  OBVIOUS
  <2>7. (a * e) % q = (0 * e) % q  BY <2>5, <2>6, <1>1, ModSame
  <2>4. 0 * e = 0  OBVIOUS
  <2> QED BY <2>4, <2>7
<1> HIDE DEF f
<1>9. HTimes(f, gen_z(a, y), e) = gen_z(a * e, f + y * e)
  BY <1>4, HTimesGen
<1>10. 0 \in Int /\ f + y * e \in Int  BY <1>1, <1>4
<1>11. gen_z(a * e, f + y * e) = gen_z(0, r)
  BY <1>1, <1>6, <1>7, <1>8, <1>10, GenEqual
<1> QED BY <1>9, <1>11 DEF f

\* The two parts of the hash add up to it.
LEMMA PartsAddUp ==
    ASSUME NEW e \in Int, NEW e_bar \in Int
    PROVE  /\ ((e - e_bar) - ((e - e_bar) % q)) % q = 0
           /\ ((e - ((e - e_bar) % q)) - e_bar) % q = 0
<1> DEFINE e_b == (e - e_bar) % q
<1>1. e - e_bar \in Int  OBVIOUS
<1>2. PICK k \in Int : e - e_bar = q * k + e_b  BY <1>1, ModDivides
<1>3. e_b \in Int  BY <1>1, ModIdem
<1> HIDE DEF e_b
<1>4. /\ (e - e_bar) - e_b = q * k + 0
      /\ (e - e_b) - e_bar = q * k + 0
  BY <1>2, <1>3, OrderAssumption, SMT
<1>5. 0 \in Residue  BY OrderAssumption DEF Residue
<1>6. /\ (e - e_bar) - e_b \in Int
      /\ (e - e_b) - e_bar \in Int
  BY <1>3
<1>7. ((e - e_bar) - e_b) % q = 0 /\ ((e - e_b) - e_bar) % q = 0
  BY <1>4, <1>5, <1>6, ModUnique
<1> QED BY <1>7 DEF e_b

\* A proof made by proof_01 is accepted by verify_proof_01: for both values,
\* all random numbers and hashes, and a y that was never reduced.
THEOREM HonestProofAccepted ==
    ASSUME NEW x \in Int, NEW y \in Int, NEW b \in {0, 1}, x % q = b % q,
           NEW draw \in [r : Int, e_bar : Int, f_bar : Int], NEW e \in Int
    PROVE  verify_proof_01(proof_01(gen_z(x, y), y, b, draw, e),
                           gen_z(x, y), e)
<1> DEFINE z == gen_z(x, y)
           e_b == (e - draw.e_bar) % q
           f_b == (draw.r - ((e_b * y) % q)) % q
<1>1. draw.r \in Int /\ draw.e_bar \in Int /\ draw.f_bar \in Int  OBVIOUS
<1>2. e_b \in Int  BY <1>1, ModIdem
<1>3. /\ ((e - draw.e_bar) - e_b) % q = 0
      /\ ((e - e_b) - draw.e_bar) % q = 0
  BY <1>1, PartsAddUp
<1>4. CASE b = 1
  <2>1. Mult(g_inv, z) = gen_z(-1 + x, 0 + y)  BY MultGen DEF g_inv
  <2>2. (-1 + x) % q = 0
    <3>1. PICK k \in Int : x = 1 + q * k  BY <1>4, ModDiffer
    <3>4. -1 + x = 0 + q * k  BY <3>1, OrderAssumption, SMT
    <3>2. 0 % q = 0  BY ModUnique, OrderAssumption, SMT DEF Residue
    <3>3. -1 + x \in Int /\ 0 \in Int  OBVIOUS
    <3> QED BY <3>2, <3>3, <3>4, ModSame
  <2>3. HTimes(f_b, gen_z(-1 + x, y), e_b) = gen_z(0, draw.r)
    BY <1>1, <1>2, <2>2, OwnAnswer
  <2>4. 0 + y = y  OBVIOUS
  <2> QED BY <1>3, <1>4, <2>1, <2>3, <2>4 DEF proof_01, verify_proof_01
<1>5. CASE b = 0
  <2>1. x % q = 0
    BY <1>5, ModUnique, OrderAssumption, SMT DEF Residue
  <2>2. HTimes(f_b, z, e_b) = gen_z(0, draw.r)
    BY <1>1, <1>2, <2>1, OwnAnswer
  <2> QED BY <1>3, <1>5, <2>2 DEF proof_01, verify_proof_01
<1> QED BY <1>4, <1>5

Answer == [e0 : Int, e1 : Int, f0 : Int, f1 : Int, d0 : Point, d1 : Point]

\* What a commitment that is no 0 cannot do: answer two parts that differ.
LEMMA OneAnswer ==
    ASSUME NEW a \in Int, NEW b \in Int, NEW e \in Int, NEW f \in Int,
           NEW e2 \in Int, NEW f2 \in Int,
           HTimes(f, gen_z(a, b), e) = HTimes(f2, gen_z(a, b), e2)
    PROVE  a % q = 0 \/ (e - e2) % q = 0
<1>1. gen_z(a * e, f + b * e) = gen_z(a * e2, f2 + b * e2)  BY HTimesGen
<1>2. (a * e) % q = (a * e2) % q  BY <1>1 DEF gen_z
<1>3. a * e \in Int /\ a * e2 \in Int  OBVIOUS
<1>4. (a * e - a * e2) % q = (a * e2 - a * e2) % q  BY <1>2, <1>3, ModSub
<1>5. a * e - a * e2 = a * (e - e2) /\ a * e2 - a * e2 = 0  BY SMT
<1>6. 0 % q = 0  BY ModUnique, OrderAssumption, SMT DEF Residue
<1>7. (a * (e - e2)) % q = 0  BY <1>4, <1>5, <1>6
<1> QED BY <1>7, NoZeroDivisors

\* verify_proof_01 is sound: if for one z and one d0, d1 it accepts an answer
\* to each of two hashes with different residues, z commits to 0 or to 1.  So
\* to any other z at most one residue of the hash has an answer.
THEOREM ProofIsSound ==
    ASSUME NEW x \in Int, NEW y \in Int, NEW e \in Int, NEW e2 \in Int,
           NEW p \in Answer, NEW p2 \in Answer,
           p.d0 = p2.d0, p.d1 = p2.d1, e % q # e2 % q,
           verify_proof_01(p, gen_z(x, y), e),
           verify_proof_01(p2, gen_z(x, y), e2)
    PROVE  x % q = 0 \/ (x - 1) % q = 0
<1> DEFINE z == gen_z(x, y)
<1>1. /\ p.e0 \in Int /\ p.e1 \in Int /\ p.f0 \in Int /\ p.f1 \in Int
      /\ p2.e0 \in Int /\ p2.e1 \in Int /\ p2.f0 \in Int /\ p2.f1 \in Int
  BY DEF Answer
<1>2. HTimes(p.f0, z, p.e0) = HTimes(p2.f0, z, p2.e0)
  BY DEF verify_proof_01
<1>3. Mult(g_inv, z) = gen_z(-1 + x, 0 + y)  BY MultGen DEF g_inv
<1>4. -1 + x \in Int /\ 0 + y \in Int  OBVIOUS
<1>5. HTimes(p.f1, gen_z(-1 + x, 0 + y), p.e1)
        = HTimes(p2.f1, gen_z(-1 + x, 0 + y), p2.e1)
  BY <1>3 DEF verify_proof_01
<1>6. x % q = 0 \/ (p.e0 - p2.e0) % q = 0  BY <1>1, <1>2, OneAnswer
<1>7. (-1 + x) % q = 0 \/ (p.e1 - p2.e1) % q = 0
  BY <1>1, <1>4, <1>5, OneAnswer
<1>8. -1 + x = x - 1  OBVIOUS
<1>9. ASSUME (p.e0 - p2.e0) % q = 0, (p.e1 - p2.e1) % q = 0  PROVE FALSE
  <2>1. ((e - p.e0) - p.e1) % q = 0 /\ ((e2 - p2.e0) - p2.e1) % q = 0
    BY DEF verify_proof_01
  <2>2. 0 \in Residue  BY OrderAssumption DEF Residue
  <2>3. 0 % q = 0  BY ModUnique, OrderAssumption, SMT DEF Residue
  <2>4. PICK k \in Int : p.e0 - p2.e0 = 0 + q * k
    BY <1>1, <1>9, <2>3, ModDiffer
  <2>5. PICK l \in Int : p.e1 - p2.e1 = 0 + q * l
    BY <1>1, <1>9, <2>3, ModDiffer
  <2>6. PICK m \in Int : (e - p.e0) - p.e1 = 0 + q * m
    BY <1>1, <2>1, <2>3, ModDiffer
  <2>7. PICK n \in Int : (e2 - p2.e0) - p2.e1 = 0 + q * n
    BY <1>1, <2>1, <2>3, ModDiffer
  <2>8. e = e2 + q * (m - n + k + l)
    BY <1>1, <2>4, <2>5, <2>6, <2>7, OrderAssumption, SMT
  <2>9. m - n + k + l \in Int  OBVIOUS
  <2> QED BY <2>8, <2>9, ModSame
<1> QED BY <1>6, <1>7, <1>8, <1>9

-----------------------------------------------------------------------------
(* The invariant: every point that is kept opens with the numbers kept      *)
(* beside it, and the sum over all tellers is the vote.                     *)

SumsOpen == \A k \in Cand : sumZ[k] = gen_z(sumX[k], sumY[k])

SharesOpen ==
    \A j \in 1 .. Len(commits) : \A k \in Cand :
        verify_xyz(commits[j][k].x, commits[j][k].y, commits[j][k].z)

TotalsOpen ==
    \A i \in Tellers : \A k \in Cand :
        verify_xyz(tally[i][k].x, tally[i][k].y, product[i][k])

SharesCounted ==
    /\ step = "share" => Len(commits) < N
    /\ step \in {"prove", "cast"} => Len(commits) = N

SumsAreVote ==
    step \in {"prove", "cast"} => \A k \in Cand : sumX[k] % q = Bit(k) % q

BitBelow(n) == IF choice \in 0 .. n - 1 THEN 1 ELSE 0

RunningOpen ==
    step \in {"share", "prove"} => curSumZ = gen_z(BitBelow(proved), curSumY)

IInv ==
    /\ BallotTypeOK
    /\ SumsOpen /\ SharesOpen /\ TotalsOpen
    /\ SharesCounted /\ SumsAreVote /\ RunningOpen
    /\ accepted

\* A share that is what is missing completes the sum.
LEMMA ModFill ==
    ASSUME NEW a \in Int, NEW b \in Int
    PROVE  (a + ((b - a) % q)) % q = b % q
<1>1. b - a \in Int  OBVIOUS
<1>2. PICK k \in Int : b - a = q * k + ((b - a) % q)  BY <1>1, ModDivides
<1>3. (b - a) % q \in Int  BY <1>1, ModIdem
<1> DEFINE m == (b - a) % q
<1> HIDE DEF m
<1>4. m \in Int /\ b - a = q * k + m  BY <1>2, <1>3 DEF m
<1>5. -k \in Int /\ a + m \in Int  BY <1>4
<1>6. a + m = b + q * (-k)  BY <1>4, OrderAssumption, SMT
<1>7. (a + m) % q = b % q  BY <1>5, <1>6, ModSame
<1> QED BY <1>7 DEF m

LEMMA ResidueInt == Residue \subseteq Nat /\ Rand \subseteq Residue
BY OrderAssumption, ElectionAssumption DEF Residue

LEMMA DrawType ==
    /\ Draw \subseteq [r : Int, e_bar : Int, f_bar : Int]
    /\ Hashes \subseteq Int
<1>1. Rand \subseteq Int /\ Hashes \subseteq Int
  BY ResidueInt, ElectionAssumption
<1> QED BY <1>1 DEF Draw

LEMMA InfinityOpens == Infinity = gen_z(0, 0) /\ Infinity \in Point
<1>1. 0 \in Int  OBVIOUS
<1> QED BY <1>1, GenType DEF Infinity

\* What Share chooses are residues.
LEMMA XsResidues ==
    ASSUME BallotTypeOK, NEW x \in Xs
    PROVE  x \in [Cand -> Residue]
<1>1. CASE LastTeller
  <2>1. \A k \in Cand : Bit(k) - sumX[k] \in Int
    BY DEF BallotTypeOK, Bit
  <2>2. \A k \in Cand : (Bit(k) - sumX[k]) % q \in Residue
    BY <2>1, ModRange
  <2>3. x = [k \in Cand |-> (Bit(k) - sumX[k]) % q]  BY <1>1 DEF Xs
  <2> QED BY <2>2, <2>3
<1>2. CASE ~LastTeller
  BY <1>2, ResidueInt DEF Xs
<1> QED BY <1>1, <1>2

LEMMA InitIInv == Init => IInv
<1> SUFFICES ASSUME Init PROVE IInv  OBVIOUS
<1> USE DEF Init
<1>1. BallotTypeOK
  BY InfinityOpens, ElectionAssumption DEF BallotTypeOK
<1>2. SumsOpen  BY InfinityOpens DEF SumsOpen
<1>3. SharesOpen  BY DEF SharesOpen
<1>4. TotalsOpen  BY InfinityOpens DEF TotalsOpen, verify_xyz
<1>5. SharesCounted /\ SumsAreVote /\ RunningOpen /\ accepted
  BY DEF SharesCounted, SumsAreVote, RunningOpen
<1> QED BY <1>1, <1>2, <1>3, <1>4, <1>5 DEF IInv

LEMMA VoteIInv == ASSUME IInv, NEW cid \in Cand \cup {Blank}, Vote(cid)
                  PROVE  IInv'
<1> USE DEF Vote, totals
<1>1. BallotTypeOK'
  BY InfinityOpens, ElectionAssumption DEF IInv, BallotTypeOK
<1>2. SumsOpen'  BY InfinityOpens DEF SumsOpen
<1>3. SharesOpen'  BY DEF SharesOpen
<1>4. TotalsOpen'  BY DEF IInv, TotalsOpen
<1>5. (SharesCounted /\ SumsAreVote /\ accepted)'
  BY ElectionAssumption DEF SharesCounted, SumsAreVote
<1>6. RunningOpen'
  <2>1. BitBelow(0)' = 0  BY SMT DEF BitBelow
  <2>2. BitBelow(proved)' = BitBelow(0)'  BY DEF BitBelow
  <2> QED BY <2>1, <2>2, InfinityOpens DEF RunningOpen
<1> QED BY <1>1, <1>2, <1>3, <1>4, <1>5, <1>6 DEF IInv

LEMMA ShareIInv == ASSUME IInv, Share PROVE IInv'
<1> USE DEF Share, totals, proofs
<1>1. PICK x \in Xs, y \in [Cand -> Rand] :
        LET z == [k \in Cand |-> gen_z(x[k], y[k])]
        IN  /\ commits' = Append(commits,
                   [k \in Cand |-> [x |-> x[k], y |-> y[k], z |-> z[k]]])
            /\ sumX' = [k \in Cand |-> sumX[k] + x[k]]
            /\ sumY' = [k \in Cand |-> sumY[k] + y[k]]
            /\ sumZ' = [k \in Cand |-> Mult(sumZ[k], z[k])]
  OBVIOUS
<1> DEFINE z == [k \in Cand |-> gen_z(x[k], y[k])]
           new == [k \in Cand |-> [x |-> x[k], y |-> y[k], z |-> z[k]]]
<1>2. x \in [Cand -> Residue]  BY XsResidues DEF IInv
<1>3. y \in [Cand -> Residue]  BY ResidueInt
<1>4. \A k \in Cand : x[k] \in Nat /\ y[k] \in Nat
  BY <1>2, <1>3, ResidueInt
<1>5. z \in [Cand -> Point]  BY <1>4, GenType
<1>6. new \in [Cand -> [x : Residue, y : Residue, z : Point]]
  BY <1>2, <1>3, <1>5
<1>7. commits' = Append(commits, new)  BY <1>1
<1>8. /\ commits \in Seq([Cand -> [x : Residue, y : Residue, z : Point]])
      /\ sumX \in [Cand -> Nat] /\ sumY \in [Cand -> Nat]
      /\ sumZ \in [Cand -> Point]
  BY DEF IInv, BallotTypeOK
<1>9. SumsOpen'
  <2> SUFFICES ASSUME NEW k \in Cand
               PROVE  sumZ'[k] = gen_z(sumX'[k], sumY'[k])
    BY DEF SumsOpen
  <2>1. sumZ[k] = gen_z(sumX[k], sumY[k])  BY DEF IInv, SumsOpen
  <2>2. sumX[k] \in Int /\ sumY[k] \in Int /\ x[k] \in Int /\ y[k] \in Int
    BY <1>4, <1>8
  <2>3. Mult(gen_z(sumX[k], sumY[k]), gen_z(x[k], y[k]))
          = gen_z(sumX[k] + x[k], sumY[k] + y[k])
    <3>1. PICK a \in Int, b \in Int, c \in Int, d \in Int :
            a = sumX[k] /\ b = sumY[k] /\ c = x[k] /\ d = y[k]
      BY <2>2
    <3>2. Mult(gen_z(a, b), gen_z(c, d)) = gen_z(a + c, b + d)
      BY MultGen
    <3> QED BY <3>1, <3>2
  <2>4. z[k] = gen_z(x[k], y[k])  OBVIOUS
  <2>5. /\ sumX'[k] = sumX[k] + x[k] /\ sumY'[k] = sumY[k] + y[k]
        /\ sumZ'[k] = Mult(sumZ[k], z[k])
    BY <1>1
  <2> HIDE DEF z
  <2> QED BY <2>1, <2>3, <2>4, <2>5
<1>10. BallotTypeOK'
  <2>1. sumX' \in [Cand -> Nat] /\ sumY' \in [Cand -> Nat]
    <3>1. \A k \in Cand : sumX[k] + x[k] \in Nat /\ sumY[k] + y[k] \in Nat
      BY <1>4, <1>8
    <3>2. /\ sumX' = [k \in Cand |-> sumX[k] + x[k]]
          /\ sumY' = [k \in Cand |-> sumY[k] + y[k]]
      BY <1>1
    <3> QED BY <3>1, <3>2
  <2>2. sumZ' \in [Cand -> Point]
    <3>1. \A k \in Cand : sumX'[k] \in Int /\ sumY'[k] \in Int  BY <2>1
    <3>2. ASSUME NEW k \in Cand PROVE sumZ'[k] \in Point
      <4>1. sumX'[k] \in Int /\ sumY'[k] \in Int  BY <3>1
      <4>2. gen_z(sumX'[k], sumY'[k]) \in Point  BY <4>1, GenType
      <4> QED BY <1>9, <4>2 DEF SumsOpen
    <3>3. sumZ' = [k \in Cand |-> Mult(sumZ[k], z[k])]  BY <1>1
    <3> QED BY <3>2, <3>3
  <2>3. commits' \in Seq([Cand -> [x : Residue, y : Residue, z : Point]])
    <3> HIDE DEF new
    <3> QED BY <1>6, <1>7, <1>8
  <2> QED BY <2>1, <2>2, <2>3 DEF IInv, BallotTypeOK
<1>11. SharesOpen'
  <2> SUFFICES ASSUME NEW j \in 1 .. Len(commits'), NEW k \in Cand
               PROVE  verify_xyz(commits'[j][k].x, commits'[j][k].y,
                                 commits'[j][k].z)
    BY DEF SharesOpen
  <2>1. CASE j \in 1 .. Len(commits)
    <3>1. commits'[j] = commits[j]
      <4> HIDE DEF new
      <4> QED BY <1>6, <1>7, <1>8, <2>1
    <3> QED BY <2>1, <3>1 DEF IInv, SharesOpen
  <2>2. CASE j = Len(commits) + 1
    <3>1. commits'[j] = new
      <4> HIDE DEF new
      <4> QED BY <1>6, <1>7, <1>8, <2>2
    <3> QED BY <3>1 DEF verify_xyz
  <2>3. Len(commits') = Len(commits) + 1 /\ Len(commits) \in Nat
    <3> HIDE DEF new
    <3> QED BY <1>6, <1>7, <1>8
  <2> QED BY <2>1, <2>2, <2>3
<1>12. TotalsOpen'  BY DEF IInv, TotalsOpen
<1>13. SharesCounted'
  <2>1. Len(commits') = Len(commits) + 1 /\ Len(commits) \in Nat
    <3> HIDE DEF new
    <3> QED BY <1>6, <1>7, <1>8
  <2> QED BY <2>1, ElectionAssumption DEF IInv, SharesCounted, LastTeller
<1>14. SumsAreVote'
  <2> SUFFICES ASSUME LastTeller, NEW k \in Cand
               PROVE  sumX'[k] % q = Bit(k)' % q
    BY DEF SumsAreVote
  <2>1. x[k] = (Bit(k) - sumX[k]) % q  BY DEF Xs
  <2>2. sumX[k] \in Int /\ Bit(k) \in Int  BY <1>8 DEF Bit
  <2>3. sumX'[k] = sumX[k] + ((Bit(k) - sumX[k]) % q)  BY <1>1, <2>1
  <2>4. Bit(k)' = Bit(k)  BY DEF Bit
  <2>5. (sumX[k] + ((Bit(k) - sumX[k]) % q)) % q = Bit(k) % q
    <3>1. PICK a \in Int, b \in Int : a = sumX[k] /\ b = Bit(k)
      BY <2>2
    <3>2. (a + ((b - a) % q)) % q = b % q  BY ModFill
    <3> QED BY <3>1, <3>2
  <2> QED BY <2>3, <2>4, <2>5
<1>15. RunningOpen'
  BY DEF IInv, RunningOpen, BitBelow
<1> QED BY <1>9, <1>10, <1>11, <1>12, <1>13, <1>14, <1>15 DEF IInv

LEMMA ProveCandidateIInv == ASSUME IInv, ProveCandidate PROVE IInv'
<1> USE DEF ProveCandidate, totals, sums
<1> DEFINE k == proved
<1>1. /\ proved \in 0 .. C /\ proved < C /\ C \in Nat
      /\ sumX \in [Cand -> Nat] /\ sumY \in [Cand -> Nat]
      /\ sumZ \in [Cand -> Point] /\ curSumY \in Nat
      /\ choice \in Cand \cup {Blank} /\ accepted
  BY ElectionAssumption DEF IInv, BallotTypeOK
<1>2. k \in Cand  BY <1>1 DEF Cand
<1>3. sumZ[k] = gen_z(sumX[k], sumY[k]) /\ sumX[k] % q = Bit(k) % q
  BY <1>2 DEF IInv, SumsOpen, SumsAreVote
<1>4. sumX[k] \in Int /\ sumY[k] \in Int /\ Bit(k) \in {0, 1}
  BY <1>1, <1>2 DEF Bit
<1> HIDE DEF k
<1>5. accepted'
  <2>1. PICK draw \in Draw, e \in Hashes :
          accepted' = (accepted /\
             verify_proof_01(proof_01(sumZ[k], sumY[k], Bit(k), draw, e),
                             sumZ[k], e))
    BY DEF Check, k
  <2>2. draw \in [r : Int, e_bar : Int, f_bar : Int] /\ e \in Int
    BY DrawType
  <2> QED BY <1>1, <1>3, <1>4, <2>1, <2>2, HonestProofAccepted
<1>6. RunningOpen'
  <2>1. curSumZ = gen_z(BitBelow(proved), curSumY)
    BY DEF IInv, RunningOpen
  <2>2. BitBelow(proved) \in Int /\ curSumY \in Int  BY <1>1 DEF BitBelow
  <2>3. sumZ[k] = gen_z(Bit(k), sumY[k])
    BY <1>3, <1>4, GenEqual
  <2>4. Bit(k) \in Int  BY <1>4
  <2>8. Mult(gen_z(BitBelow(proved), curSumY), gen_z(Bit(k), sumY[k]))
          = gen_z(BitBelow(proved) + Bit(k), curSumY + sumY[k])
    <3>1. PICK a \in Int, b \in Int, c \in Int, d \in Int :
            /\ a = BitBelow(proved) /\ b = curSumY
            /\ c = Bit(k) /\ d = sumY[k]
      BY <1>4, <2>2, <2>4
    <3>2. Mult(gen_z(a, b), gen_z(c, d)) = gen_z(a + c, b + d)
      BY MultGen
    <3> QED BY <3>1, <3>2
  <2>9. curSumZ' = Mult(curSumZ, sumZ[k])  BY DEF k
  <2>5. curSumZ' = gen_z(BitBelow(proved) + Bit(k), curSumY + sumY[k])
    BY <2>1, <2>3, <2>8, <2>9
  <2>6. BitBelow(proved') = BitBelow(proved) + Bit(k)
    BY <1>1, SMT DEF BitBelow, Bit, k, Cand, Blank
  <2>7. BitBelow(proved)' = BitBelow(proved')  BY DEF BitBelow
  <2> QED BY <2>5, <2>6, <2>7 DEF RunningOpen, k
<1>7. BallotTypeOK'
  <2>1. proved' \in 0 .. C  BY <1>1
  <2>2. curSumY' \in Nat  BY <1>1, <1>2 DEF k
  <2>3. curSumZ' \in Point
    <3>1. BitBelow(proved)' \in Int /\ curSumY' \in Int
      BY <2>2 DEF BitBelow
    <3>2. curSumZ' = gen_z(BitBelow(proved)', curSumY')
      BY <1>6 DEF RunningOpen
    <3> QED BY <3>1, <3>2, GenType
  <2> QED BY <1>5, <2>1, <2>2, <2>3 DEF IInv, BallotTypeOK
<1>8. SumsOpen'  BY DEF IInv, SumsOpen
<1>9. SharesOpen'  BY DEF IInv, SharesOpen
<1>10. TotalsOpen'  BY DEF IInv, TotalsOpen
<1>11. SharesCounted' /\ SumsAreVote'
  BY DEF IInv, SharesCounted, SumsAreVote, Bit
<1> QED BY <1>5, <1>6, <1>7, <1>8, <1>9, <1>10, <1>11 DEF IInv

LEMMA ProveTotalIInv == ASSUME IInv, ProveTotal PROVE IInv'
<1> USE DEF ProveTotal, totals, sums
<1> DEFINE b == IF choice >= 0 THEN 1 ELSE 0
<1>1. /\ proved = C /\ C \in Nat /\ curSumY \in Int
      /\ choice \in Cand \cup {Blank} /\ accepted
  BY ElectionAssumption DEF IInv, BallotTypeOK
<1>2. BitBelow(C) = b  BY <1>1, SMT DEF BitBelow, Cand, Blank
<1>3. curSumZ = gen_z(b, curSumY)
  BY <1>1, <1>2 DEF IInv, RunningOpen
<1>4. b \in {0, 1} /\ b \in Int /\ b % q = b % q  OBVIOUS
<1>5. accepted'
  <2>1. PICK draw \in Draw, e \in Hashes :
          accepted' = (accepted /\
             verify_proof_01(proof_01(curSumZ, curSumY, b, draw, e),
                             curSumZ, e))
    BY DEF Check
  <2>2. draw \in [r : Int, e_bar : Int, f_bar : Int] /\ e \in Int
    BY DrawType
  <2> HIDE DEF b
  <2> QED BY <1>1, <1>3, <1>4, <2>1, <2>2, HonestProofAccepted
<1>6. BallotTypeOK'  BY <1>5 DEF IInv, BallotTypeOK
<1>7. SumsOpen'  BY DEF IInv, SumsOpen
<1>8. SharesOpen'  BY DEF IInv, SharesOpen
<1>9. TotalsOpen'  BY DEF IInv, TotalsOpen
<1>10. SharesCounted' /\ SumsAreVote' /\ RunningOpen'
  BY DEF IInv, SharesCounted, SumsAreVote, RunningOpen, Bit
<1> QED BY <1>5, <1>6, <1>7, <1>8, <1>9, <1>10 DEF IInv

LEMMA CastIInv == ASSUME IInv, Cast PROVE IInv'
<1> USE DEF Cast, sums, proofs
<1>1. /\ commits \in Seq([Cand -> [x : Residue, y : Residue, z : Point]])
      /\ tally \in [Tellers -> [Cand -> [x : Nat, y : Nat]]]
      /\ product \in [Tellers -> [Cand -> Point]]
      /\ Len(commits) = N
  BY DEF IInv, BallotTypeOK, SharesCounted
<1>2. ASSUME NEW i \in Tellers, NEW k \in Cand
      PROVE  /\ commits[i][k].x \in Nat /\ commits[i][k].y \in Nat
             /\ commits[i][k].z = gen_z(commits[i][k].x, commits[i][k].y)
             /\ product[i][k] = gen_z(tally[i][k].x, tally[i][k].y)
             /\ tally[i][k].x \in Nat /\ tally[i][k].y \in Nat
  <2>1. i \in 1 .. Len(commits)  BY <1>1 DEF Tellers
  <2>2. commits[i] \in [Cand -> [x : Residue, y : Residue, z : Point]]
    BY <1>1, <2>1
  <2>3. commits[i][k] \in [x : Residue, y : Residue, z : Point]  BY <2>2
  <2>4. commits[i][k].z = gen_z(commits[i][k].x, commits[i][k].y)
    BY <2>1 DEF IInv, SharesOpen, verify_xyz
  <2>5. product[i][k] = gen_z(tally[i][k].x, tally[i][k].y)
    BY DEF IInv, TotalsOpen, verify_xyz
  <2>6. tally[i][k] \in [x : Nat, y : Nat]  BY <1>1
  <2> QED BY <2>3, <2>4, <2>5, <2>6, ResidueInt
<1>3. ASSUME accepted /\ SharesVerify
      PROVE  BallotTypeOK' /\ TotalsOpen'
  <2>1. /\ tally' = [i \in Tellers |-> [k \in Cand |->
                [x |-> tally[i][k].x + commits[i][k].x,
                 y |-> tally[i][k].y + commits[i][k].y]]]
        /\ product' = [i \in Tellers |-> [k \in Cand |->
                Mult(product[i][k], commits[i][k].z)]]
    BY <1>3
  <2>2. tally' \in [Tellers -> [Cand -> [x : Nat, y : Nat]]]
    BY <1>2, <2>1
  <2>3. ASSUME NEW i \in Tellers, NEW k \in Cand
        PROVE  product'[i][k] = gen_z(tally'[i][k].x, tally'[i][k].y)
    <3>1. /\ commits[i][k].x \in Int /\ commits[i][k].y \in Int
          /\ tally[i][k].x \in Int /\ tally[i][k].y \in Int
      BY <1>2
    <3>2. Mult(gen_z(tally[i][k].x, tally[i][k].y),
               gen_z(commits[i][k].x, commits[i][k].y))
            = gen_z(tally[i][k].x + commits[i][k].x,
                    tally[i][k].y + commits[i][k].y)
      BY <3>1, MultGen
    <3>3. product'[i][k] = Mult(product[i][k], commits[i][k].z)
      BY <2>1
    <3>4. /\ tally'[i][k].x = tally[i][k].x + commits[i][k].x
          /\ tally'[i][k].y = tally[i][k].y + commits[i][k].y
      BY <2>1
    <3> QED BY <1>2, <3>2, <3>3, <3>4
  <2>4. TotalsOpen'  BY <2>3 DEF TotalsOpen, verify_xyz
  <2>5. product' \in [Tellers -> [Cand -> Point]]
    <3>1. \A i \in Tellers, k \in Cand : product'[i][k] \in Point
      BY <2>2, <2>3, GenType
    <3> QED BY <2>1, <3>1
  <2> QED BY <2>2, <2>4, <2>5 DEF IInv, BallotTypeOK
<1>4. ASSUME ~(accepted /\ SharesVerify)
      PROVE  BallotTypeOK' /\ TotalsOpen'
  BY <1>4 DEF IInv, BallotTypeOK, TotalsOpen
<1>5. BallotTypeOK' /\ TotalsOpen'
  BY <1>3, <1>4 DEF IInv, BallotTypeOK
<1>6. SumsOpen' /\ SharesOpen'  BY DEF IInv, SumsOpen, SharesOpen
<1>7. (SharesCounted /\ SumsAreVote /\ RunningOpen /\ accepted)'
  BY DEF IInv, SharesCounted, SumsAreVote, RunningOpen
<1> QED BY <1>5, <1>6, <1>7 DEF IInv

LEMMA CountIInv == ASSUME IInv, Count PROVE IInv'
<1> USE DEF Count, sums, proofs, totals
<1>1. BallotTypeOK'  BY DEF IInv, BallotTypeOK
<1>2. (SumsOpen /\ SharesOpen /\ TotalsOpen)'
  BY DEF IInv, SumsOpen, SharesOpen, TotalsOpen
<1>3. (SharesCounted /\ SumsAreVote /\ RunningOpen /\ accepted)'
  BY DEF IInv, SharesCounted, SumsAreVote, RunningOpen
<1> QED BY <1>1, <1>2, <1>3 DEF IInv

LEMMA StutterIInv == ASSUME IInv, UNCHANGED vars PROVE IInv'
BY DEF vars, sums, proofs, totals, IInv, BallotTypeOK, SumsOpen, SharesOpen,
       TotalsOpen, SharesCounted, SumsAreVote, RunningOpen, Bit, BitBelow

\* The invariant holds in every reachable state.
THEOREM SpecIInv == Spec => []IInv
<1>1. IInv /\ [Next]_vars => IInv'
  <2> SUFFICES ASSUME IInv, [Next]_vars PROVE IInv'  OBVIOUS
  <2>1. ASSUME NEW cid \in Cand \cup {Blank}, Vote(cid) PROVE IInv'
    BY <2>1, VoteIInv
  <2>2. CASE Share  BY <2>2, ShareIInv
  <2>3. CASE ProveCandidate  BY <2>3, ProveCandidateIInv
  <2>4. CASE ProveTotal  BY <2>4, ProveTotalIInv
  <2>5. CASE Cast  BY <2>5, CastIInv
  <2>6. CASE Count  BY <2>6, CountIInv
  <2>7. CASE Counted  BY <2>7, StutterIInv DEF Counted
  <2>8. CASE UNCHANGED vars  BY <2>8, StutterIInv
  <2> QED BY <2>1, <2>2, <2>3, <2>4, <2>5, <2>6, <2>7, <2>8 DEF Next
<1> QED BY <1>1, InitIInv, PTL DEF Spec

\* The ESP accepts the proofs of every ballot that generate_vote makes, in
\* elections of every size.
THEOREM BallotAlwaysAccepted == Spec => []HonestBallotAccepted
<1>1. IInv => HonestBallotAccepted  BY DEF IInv, HonestBallotAccepted
<1> QED BY <1>1, SpecIInv, PTL

LEMMA CountsInv == IInv => CountsVerify
<1> SUFFICES ASSUME IInv, NEW i \in Tellers, NEW k \in Cand
               PROVE  verify_xyz(CountX(i, k), CountY(i, k), product[i][k])
  BY DEF CountsVerify
<1>1. tally[i][k].x \in Int /\ tally[i][k].y \in Int
  <2>1. tally \in [Tellers -> [Cand -> [x : Nat, y : Nat]]]
    BY DEF IInv, BallotTypeOK
  <2>2. tally[i][k] \in [x : Nat, y : Nat]  BY <2>1
  <2> QED BY <2>2
<1>2. gen_z(tally[i][k].x, tally[i][k].y) = product[i][k]
  BY DEF IInv, TotalsOpen, verify_xyz
<1>3. gen_z(CountX(i, k), CountY(i, k))
        = gen_z(tally[i][k].x, tally[i][k].y)
  BY <1>1, ModIdem, GenEqual DEF CountX, CountY
<1> QED BY <1>2, <1>3 DEF verify_xyz

\* The sums that a teller publishes, reduced at last, always open the ESP's
\* product of its commitments: verifyResult accepts them.
THEOREM CountsAlwaysVerify == Spec => []CountsVerify
BY CountsInv, SpecIInv, PTL

-----------------------------------------------------------------------------
(* Sums over the tellers.  The program adds in the order of the tellers; the *)
(* model's final sums are folds over the set of tellers.                     *)

\* p[i] is the sum of the first i numbers of f.
PartialSums(p, f, n) ==
    /\ p \in [0 .. n -> Int]
    /\ p[0] = 0
    /\ \A i \in 1 .. n : p[i] = p[i - 1] + f[i]

Pick(s) == CHOOSE i \in s : TRUE

\* F[s] is the sum of the numbers that f has for the tellers in s.
SetSums(F, f) ==
    /\ F \in [SUBSET Tellers -> Int]
    /\ \A s \in SUBSET Tellers :
         F[s] = IF s = {} THEN 0 ELSE f[Pick(s)] + F[s \ {Pick(s)}]

LEMMA TellersFinite ==
    /\ N \in Nat /\ N > 0 /\ IsFiniteSet(Tellers)
    /\ \A s \in SUBSET Tellers : s # {} => Pick(s) \in s
BY ElectionAssumption, FS_Interval DEF Tellers, Pick

\* What f has for the tellers in s, and 0 for the others.
Only(f, s) == [i \in Tellers |-> IF i \in s THEN f[i] ELSE 0]

\* Without teller c all sums from c on are smaller by f[c].
LEMMA WithoutOne ==
    ASSUME NEW f \in [Tellers -> Int], NEW s \in SUBSET Tellers, NEW c \in s,
           NEW p, PartialSums(p, Only(f, s), N)
    PROVE  \E p2 : /\ PartialSums(p2, Only(f, s \ {c}), N)
                   /\ p2[N] = p[N] - f[c]
<1> DEFINE p2 == [i \in 0 .. N |-> IF i >= c THEN p[i] - f[c] ELSE p[i]]
<1>1. /\ c \in 1 .. N /\ f[c] \in Int /\ N \in Nat
      /\ p \in [0 .. N -> Int] /\ p[0] = 0
  BY ElectionAssumption DEF PartialSums, Tellers
<1>2. p2 \in [0 .. N -> Int] /\ p2[0] = 0 /\ p2[N] = p[N] - f[c]
  BY <1>1
<1>3. ASSUME NEW i \in 1 .. N
      PROVE  p2[i] = p2[i - 1] + Only(f, s \ {c})[i]
  <2>1. /\ i \in Tellers /\ i - 1 \in 0 .. N /\ i \in 0 .. N
        /\ f[i] \in Int /\ p[i] \in Int /\ p[i - 1] \in Int
    BY <1>1 DEF Tellers
  <2>2. p[i] = p[i - 1] + Only(f, s)[i]  BY DEF PartialSums
  <2>3. /\ Only(f, s)[i] = IF i \in s THEN f[i] ELSE 0
        /\ Only(f, s \ {c})[i] = IF i \in s /\ i # c THEN f[i] ELSE 0
    BY <2>1 DEF Only
  <2>4. CASE i = c
    <3>1. p2[i] = p[i] - f[c] /\ p2[i - 1] = p[i - 1]  BY <1>1, <2>1, <2>4
    <3> QED BY <1>1, <2>1, <2>2, <2>3, <2>4, <3>1
  <2>5. CASE i > c
    <3>1. p2[i] = p[i] - f[c] /\ p2[i - 1] = p[i - 1] - f[c]
      BY <1>1, <2>1, <2>5
    <3> QED BY <1>1, <2>1, <2>2, <2>3, <2>5, <3>1
  <2>6. CASE i < c
    <3>1. p2[i] = p[i] /\ p2[i - 1] = p[i - 1]  BY <1>1, <2>1, <2>6
    <3> QED BY <1>1, <2>1, <2>2, <2>3, <2>6, <3>1
  <2> QED BY <1>1, <2>4, <2>5, <2>6
<1> HIDE DEF p2
<1> QED BY <1>2, <1>3 DEF PartialSums

\* The sums of no numbers are 0.
LEMMA NoneIsZero ==
    ASSUME NEW f, NEW p, PartialSums(p, Only(f, {}), N)
    PROVE  p[N] = 0
<1> DEFINE S == {i \in 0 .. N : p[i] = 0}
<1>1. 0 \in S  BY TellersFinite DEF PartialSums
<1>2. ASSUME NEW n \in 0 .. N, n < N, n \in S PROVE n + 1 \in S
  <2>1. n + 1 \in 1 .. N /\ (n + 1) - 1 = n  BY <1>2, TellersFinite
  <2>2. Only(f, {})[n + 1] = 0  BY <2>1 DEF Only, Tellers
  <2>3. p[n + 1] = p[n] + 0  BY <2>1, <2>2 DEF PartialSums
  <2> QED BY <1>2, <2>1, <2>3
<1> HIDE DEF S
<1>3. 0 .. N \subseteq S
  BY <1>1, <1>2, TellersFinite, UptoInductionSet
<1>4. N \in 0 .. N  BY TellersFinite
<1> QED BY <1>3, <1>4 DEF S

\* Adding in any order, and reducing numbers before they are added, gives the
\* same residue as the sum in the order of the tellers.
LEMMA SumsAgree ==
    ASSUME NEW f \in [Tellers -> Int], NEW g \in [Tellers -> Int],
           \A i \in Tellers : g[i] % q = f[i] % q,
           NEW F, SetSums(F, g), NEW p, PartialSums(p, f, N)
    PROVE  F[Tellers] % q = p[N] % q
<1> DEFINE P == {s \in SUBSET Tellers :
                   \A p2 : PartialSums(p2, Only(f, s), N)
                             => F[s] % q = p2[N] % q}
<1>1. ASSUME NEW s \in SUBSET Tellers,
             \A t \in SUBSET s : t # s => t \in P
      PROVE  s \in P
  <2> SUFFICES ASSUME NEW p2, PartialSums(p2, Only(f, s), N)
               PROVE  F[s] % q = p2[N] % q
    OBVIOUS
  <2>1. CASE s = {}
    <3>1. F[s] = 0  BY <2>1 DEF SetSums
    <3>2. p2[N] = 0  BY <2>1, NoneIsZero
    <3> QED BY <3>1, <3>2
  <2>2. CASE s # {}
    <3> DEFINE c == Pick(s)  t == s \ {c}
    <3>1. c \in s /\ c \in Tellers  BY <2>2, TellersFinite
    <3>2. F[s] = g[c] + F[t]  BY <2>2 DEF SetSums
    <3> HIDE DEF c
    <3>3. PICK p3 : PartialSums(p3, Only(f, t), N) /\ p3[N] = p2[N] - f[c]
      BY <3>1, WithoutOne
    <3>4. t \in P  BY <1>1, <3>1
    <3>5. F[t] % q = p3[N] % q  BY <3>3, <3>4
    <3>6. /\ f[c] \in Int /\ g[c] \in Int /\ F[t] \in Int
          /\ p2[N] \in Int /\ p3[N] \in Int
      BY <3>1, <3>3, TellersFinite DEF SetSums, PartialSums
    <3>7. g[c] % q = f[c] % q  BY <3>1
    <3>8. (g[c] + F[t]) % q = (f[c] + p3[N]) % q
      BY <3>5, <3>6, <3>7, ModAdd
    <3>9. f[c] + p3[N] = p2[N]  BY <3>3, <3>6
    <3> QED BY <3>2, <3>8, <3>9
  <2> QED BY <2>1, <2>2
<1> HIDE DEF P
<1>2. SUBSET Tellers \subseteq P
  BY <1>1, TellersFinite, SubsetInductionSet
<1>3. Tellers \in P  BY <1>2
<1>4. PartialSums(p, Only(f, Tellers), N)
  BY DEF PartialSums, Only, Tellers
<1> QED BY <1>3, <1>4 DEF P

\* A sum of integers over the tellers, in any order, exists.
LEMMA SetSumsExist ==
    ASSUME NEW f \in [Tellers -> Int]
    PROVE  \E F : SetSums(F, f)
<1> DEFINE g == [a \in Tellers \X Int |-> f[a[1]] + a[2]]
           pick == [s \in SUBSET Tellers |-> Pick(s)]
<1>1. g \in [Tellers \X Int -> Int]  OBVIOUS
<1>2. Picks(pick, Tellers)  BY TellersFinite DEF Picks
<1>3. 0 \in Int  OBVIOUS
<1>4. \A i \in Tellers, v \in Int : g[<<i, v>>] = f[i] + v  OBVIOUS
<1>5. \A s \in SUBSET Tellers : pick[s] = Pick(s)  OBVIOUS
<1> HIDE DEF g, pick
<1>6. PICK F : IsFold(F, Tellers, Int, 0, g, pick)
  BY <1>1, <1>2, <1>3, TellersFinite, FoldExists
<1>7. ASSUME NEW s \in SUBSET Tellers, s # {}
      PROVE  F[s] = f[Pick(s)] + F[s \ {Pick(s)}]
  <2>1. Pick(s) \in Tellers /\ F[s \ {Pick(s)}] \in Int
    BY <1>6, <1>7, TellersFinite DEF IsFold
  <2>2. F[s] = g[<<Pick(s), F[s \ {Pick(s)}]>>]
    BY <1>5, <1>6, <1>7 DEF IsFold
  <2> QED BY <1>4, <2>1, <2>2
<1> QED BY <1>6, <1>7 DEF SetSums, IsFold

\* SumOver is such a sum.
LEMMA SumOverIsSum ==
    ASSUME NEW f \in [Tellers -> Int]
    PROVE  \E F : SetSums(F, f) /\ SumOver(f) = F[Tellers]
<1> DEFINE Step(F) == [s \in SUBSET Tellers |->
                         IF s = {} THEN 0
                         ELSE f[CHOOSE i \in s : TRUE]
                                + F[s \ {CHOOSE i \in s : TRUE}]]
           It == CHOOSE F : F = Step(F)
<1>1. PICK F : SetSums(F, f)  BY SetSumsExist
<1>2. F = Step(F)
  <2>1. \A s \in SUBSET Tellers : F[s] = Step(F)[s]
    BY <1>1 DEF SetSums, Pick
  <2> HIDE DEF Step
  <2>2. Step(F) = [s \in SUBSET Tellers |-> Step(F)[s]]  BY DEF Step
  <2> QED BY <1>1, <2>1, <2>2 DEF SetSums
<1>3. It = Step(It)  BY <1>2
<1>4. SumOver(f) = It[Tellers]
  BY DEF SumOver, MapThenSumSet, MapThenFoldSet
<1> HIDE DEF It
<1>5. It = F
  <2>1. /\ F = [s \in SUBSET Tellers |-> F[s]]
        /\ It = [s \in SUBSET Tellers |-> It[s]]
        /\ F[{}] = It[{}]
    BY <1>2, <1>3
  <2>2. ASSUME NEW s \in SUBSET Tellers, s # {}
        PROVE  \E c \in s : F[s \ {c}] = It[s \ {c}] => F[s] = It[s]
    <3>1. Pick(s) \in s  BY <2>2, TellersFinite
    <3>2. /\ F[s] = f[Pick(s)] + F[s \ {Pick(s)}]
          /\ It[s] = f[Pick(s)] + It[s \ {Pick(s)}]
      BY <1>2, <1>3, <2>2 DEF Pick
    <3> QED BY <3>1, <3>2
  <2> HIDE DEF Step
  <2>3. SameSteps(F, It, Tellers)  BY <2>1, <2>2 DEF SameSteps
  <2> QED BY <2>3, TellersFinite, SameFold
<1> QED BY <1>1, <1>4, <1>5

\* The product of points opens with the sums of what the points open with.
LEMMA ProductOpens ==
    ASSUME NEW f \in [Tellers -> Int], NEW g \in [Tellers -> Int],
           NEW points, points = [i \in Tellers |-> gen_z(f[i], g[i])]
    PROVE  /\ SumOver(f) \in Int /\ SumOver(g) \in Int
           /\ ProductOver(points) = gen_z(SumOver(f), SumOver(g))
<1> DEFINE Step(F) == [s \in SUBSET Tellers |->
                         IF s = {} THEN Infinity
                         ELSE Mult(points[CHOOSE i \in s : TRUE],
                                   F[s \ {CHOOSE i \in s : TRUE}])]
           It == CHOOSE F : F = Step(F)
<1>1. PICK F : SetSums(F, f) /\ SumOver(f) = F[Tellers]
  BY SumOverIsSum
<1>2. PICK G : SetSums(G, g) /\ SumOver(g) = G[Tellers]
  BY SumOverIsSum
<1> DEFINE H == [s \in SUBSET Tellers |-> gen_z(F[s], G[s])]
<1>3. H[{}] = Infinity  BY <1>1, <1>2 DEF SetSums, Infinity
<1>4. ASSUME NEW s \in SUBSET Tellers, s # {}
      PROVE  H[s] = Mult(points[Pick(s)], H[s \ {Pick(s)}])
  <2> DEFINE c == Pick(s)  t == s \ {Pick(s)}
  <2>1. c \in Tellers /\ t \in SUBSET Tellers  BY <1>4, TellersFinite
  <2>2. F[s] = f[c] + F[t] /\ G[s] = g[c] + G[t]
    BY <1>1, <1>2, <1>4 DEF SetSums
  <2>3. /\ f[c] \in Int /\ g[c] \in Int /\ F[t] \in Int /\ G[t] \in Int
    BY <1>1, <1>2, <2>1 DEF SetSums
  <2>4. points[c] = gen_z(f[c], g[c])  BY <2>1
  <2>5. H[t] = gen_z(F[t], G[t]) /\ H[s] = gen_z(F[s], G[s])  BY <2>1
  <2> HIDE DEF c, t, H
  <2>6. Mult(gen_z(f[c], g[c]), gen_z(F[t], G[t]))
          = gen_z(f[c] + F[t], g[c] + G[t])
    <3>1. PICK a \in Int, b \in Int, x \in Int, y \in Int :
            a = f[c] /\ b = g[c] /\ x = F[t] /\ y = G[t]
      BY <2>3
    <3>2. Mult(gen_z(a, b), gen_z(x, y)) = gen_z(a + x, b + y)
      BY MultGen
    <3> QED BY <3>1, <3>2
  <2>7. H[s] = Mult(points[c], H[t])  BY <2>2, <2>4, <2>5, <2>6
  <2> QED BY <2>7 DEF c, t
<1>5. H = Step(H)
  <2>1. \A s \in SUBSET Tellers : H[s] = Step(H)[s]
    <3> HIDE DEF H
    <3> QED BY <1>3, <1>4 DEF Pick
  <2>2. H = [s \in SUBSET Tellers |-> H[s]]  OBVIOUS
  <2> HIDE DEF H
  <2> QED BY <2>1, <2>2
<1> HIDE DEF H
<1>6. It = Step(It)
  <2> HIDE DEF Step
  <2>1. \E X : X = Step(X)  BY <1>5
  <2> QED BY <2>1
<1>7. ProductOver(points) = It[Tellers]
  BY DEF ProductOver, MapThenFoldSet
<1> HIDE DEF It
<1>8. It = H
  <2>1. /\ H = [s \in SUBSET Tellers |-> H[s]]
        /\ It = [s \in SUBSET Tellers |-> It[s]]
        /\ H[{}] = It[{}]
    BY <1>5, <1>6
  <2>2. ASSUME NEW s \in SUBSET Tellers, s # {}
        PROVE  \E c \in s : H[s \ {c}] = It[s \ {c}] => H[s] = It[s]
    <3>1. Pick(s) \in s  BY <2>2, TellersFinite
    <3>2. /\ H[s] = Mult(points[Pick(s)], H[s \ {Pick(s)}])
          /\ It[s] = Mult(points[Pick(s)], It[s \ {Pick(s)}])
      BY <1>5, <1>6, <2>2 DEF Pick
    <3> QED BY <3>1, <3>2
  <2> HIDE DEF Step
  <2>3. SameSteps(H, It, Tellers)  BY <2>1, <2>2 DEF SameSteps
  <2> QED BY <2>3, TellersFinite, SameFold
<1>9. H[Tellers] = gen_z(F[Tellers], G[Tellers])  BY DEF H
<1>10. F[Tellers] \in Int /\ G[Tellers] \in Int  BY <1>1, <1>2 DEF SetSums
<1> QED BY <1>1, <1>2, <1>7, <1>8, <1>9, <1>10

-----------------------------------------------------------------------------
(* The sums are those of the votes.                                        *)

CountTypes ==
    /\ votes \in [Cand -> Nat]
    /\ ballots \in 0 .. MaxBallots
    /\ step \in {"share", "prove", "cast"} => ballots < MaxBallots
    /\ Len(commits) <= N
    /\ result \in [verified : BOOLEAN, x : [Cand -> Residue],
                   y : [Cand -> Residue]]

\* The page's sums are those of the shares made so far.
ShareX(k) == [j \in 1 .. Len(commits) |-> commits[j][k].x]

SharesAddUp ==
    \A k \in Cand : \E p : /\ PartialSums(p, ShareX(k), Len(commits))
                         /\ p[Len(commits)] = sumX[k]

\* The tellers' sums, which nobody adds up before the end, are the votes.
TallyX(k) == [i \in Tellers |-> tally[i][k].x]

TalliesAreVotes ==
    \A k \in Cand : \E p : /\ PartialSums(p, TallyX(k), N)
                         /\ p[N] % q = votes[k] % q

CountInv == CountTypes /\ SharesAddUp /\ TalliesAreVotes /\ ResultIsCount

LEMMA InitCountInv == Init => CountInv
<1> SUFFICES ASSUME Init PROVE CountInv  OBVIOUS
<1> USE DEF Init
<1>1. CountTypes
  <2>1. 0 \in Residue  BY OrderAssumption DEF Residue
  <2> QED BY <2>1, ElectionAssumption DEF CountTypes, NoResult
<1>2. SharesAddUp
  <2> SUFFICES ASSUME NEW k \in Cand
               PROVE  \E p : /\ PartialSums(p, ShareX(k), Len(commits))
                             /\ p[Len(commits)] = sumX[k]
    BY DEF SharesAddUp
  <2> DEFINE p == [i \in 0 .. 0 |-> 0]
  <2>1. PartialSums(p, ShareX(k), 0) /\ p[0] = 0  BY DEF PartialSums
  <2>2. Len(commits) = 0 /\ sumX[k] = 0  OBVIOUS
  <2> HIDE DEF p
  <2> QED BY <2>1, <2>2
<1>3. TalliesAreVotes
  <2> SUFFICES ASSUME NEW k \in Cand
               PROVE  \E p : /\ PartialSums(p, TallyX(k), N)
                             /\ p[N] % q = votes[k] % q
    BY DEF TalliesAreVotes
  <2> DEFINE p == [i \in 0 .. N |-> 0]
  <2>1. \A i \in 1 .. N : TallyX(k)[i] = 0 /\ i - 1 \in 0 .. N
    BY TellersFinite DEF TallyX, Tellers
  <2>2. PartialSums(p, TallyX(k), N) /\ p[N] = 0
    BY <2>1, TellersFinite DEF PartialSums
  <2>3. votes[k] = 0  OBVIOUS
  <2> HIDE DEF p
  <2> QED BY <2>2, <2>3
<1>4. ResultIsCount  BY DEF ResultIsCount
<1> QED BY <1>1, <1>2, <1>3, <1>4 DEF CountInv

LEMMA VoteCountInv ==
    ASSUME IInv, CountInv, NEW cid \in Cand \cup {Blank}, Vote(cid)
    PROVE  CountInv'
<1> USE DEF Vote, totals
<1>1. CountTypes'  BY ElectionAssumption DEF CountInv, CountTypes
<1>2. SharesAddUp'
  <2> SUFFICES ASSUME NEW k \in Cand
               PROVE  \E p : /\ PartialSums(p, ShareX(k)', Len(commits'))
                             /\ p[Len(commits')] = sumX'[k]
    BY DEF SharesAddUp
  <2> DEFINE p == [i \in 0 .. 0 |-> 0]
  <2>1. PartialSums(p, ShareX(k)', 0) /\ p[0] = 0  BY DEF PartialSums
  <2>2. Len(commits') = 0 /\ sumX'[k] = 0  OBVIOUS
  <2> HIDE DEF p
  <2> QED BY <2>1, <2>2
<1>3. TalliesAreVotes'  BY DEF CountInv, TalliesAreVotes, TallyX
<1>4. ResultIsCount'  BY DEF ResultIsCount
<1> QED BY <1>1, <1>2, <1>3, <1>4 DEF CountInv

LEMMA ShareCountInv == ASSUME IInv, IInv', CountInv, Share PROVE CountInv'
<1> USE DEF Share, totals, proofs
<1>1. PICK x \in Xs, y \in [Cand -> Rand] :
        /\ commits' = Append(commits,
               [k \in Cand |-> [x |-> x[k], y |-> y[k],
                                z |-> gen_z(x[k], y[k])]])
        /\ sumX' = [k \in Cand |-> sumX[k] + x[k]]
  OBVIOUS
<1> DEFINE n == Len(commits)
           new == [k \in Cand |-> [x |-> x[k], y |-> y[k],
                                  z |-> gen_z(x[k], y[k])]]
<1>2. /\ commits \in Seq([Cand -> [x : Residue, y : Residue, z : Point]])
      /\ commits' \in Seq([Cand -> [x : Residue, y : Residue, z : Point]])
      /\ x \in [Cand -> Residue] /\ sumX \in [Cand -> Nat] /\ n < N
  BY XsResidues DEF IInv, BallotTypeOK, SharesCounted
<1>3. commits' = Append(commits, new)  BY <1>1
<1> HIDE DEF new
<1>4. /\ n \in Nat /\ Len(commits') = n + 1
      /\ \A j \in 1 .. n : commits'[j] = commits[j]
      /\ commits'[n + 1] = new
  BY <1>2, <1>3
<1>5. CountTypes'
  BY <1>2, <1>4, ElectionAssumption DEF CountInv, CountTypes
<1>6. SharesAddUp'
  <2> SUFFICES ASSUME NEW k \in Cand
               PROVE  \E p : /\ PartialSums(p, ShareX(k)', Len(commits'))
                             /\ p[Len(commits')] = sumX'[k]
    BY DEF SharesAddUp
  <2>1. PICK p : PartialSums(p, ShareX(k), n) /\ p[n] = sumX[k]
    BY DEF CountInv, SharesAddUp
  <2> HIDE DEF n
  <2> DEFINE p2 == [i \in 0 .. n + 1 |-> IF i = n + 1 THEN sumX[k] + x[k]
                                                     ELSE p[i]]
  <2>2. sumX[k] \in Int /\ x[k] \in Int /\ p \in [0 .. n -> Int]
    <3>1. x[k] \in Residue /\ sumX[k] \in Nat  BY <1>2
    <3>2. x[k] \in Nat  BY <3>1, ResidueInt, Zenon
    <3> QED BY <2>1, <3>1, <3>2 DEF PartialSums
  <2>3. p2 \in [0 .. n + 1 -> Int] /\ p2[0] = 0
    BY <1>4, <2>1, <2>2 DEF PartialSums
  <2>4. /\ ShareX(k)' = [j \in 1 .. n + 1 |-> commits'[j][k].x]
        /\ ShareX(k) = [j \in 1 .. n |-> commits[j][k].x]
    BY <1>4 DEF ShareX, n
  <2>5. ASSUME NEW i \in 1 .. n + 1
        PROVE  p2[i] = p2[i - 1] + ShareX(k)'[i]
    <3>1. CASE i \in 1 .. n
      <4>1. p[i] = p[i - 1] + ShareX(k)[i]  BY <2>1, <3>1 DEF PartialSums
      <4>2. ShareX(k)'[i] = ShareX(k)[i]  BY <1>4, <2>4, <3>1
      <4>3. p2[i] = p[i] /\ p2[i - 1] = p[i - 1]  BY <1>4, <3>1
      <4> HIDE DEF p2
      <4> QED BY <4>1, <4>2, <4>3
    <3>2. CASE i = n + 1
      <4>1. ShareX(k)'[i] = x[k]
        <5>1. new[k].x = x[k]  BY DEF new
        <5> QED BY <1>4, <2>4, <3>2, <5>1
      <4>2. p2[i] = sumX[k] + x[k] /\ p2[i - 1] = p[n]  BY <1>4, <3>2
      <4> HIDE DEF p2
      <4> QED BY <2>1, <4>1, <4>2
    <3> QED BY <1>4, <3>1, <3>2
  <2>6. sumX'[k] = sumX[k] + x[k] /\ p2[n + 1] = sumX[k] + x[k]
    BY <1>1, <1>4
  <2> HIDE DEF p2
  <2>7. PartialSums(p2, ShareX(k)', n + 1)
    BY <2>3, <2>5 DEF PartialSums
  <2>8. Len(commits') = n + 1  BY <1>4 DEF n
  <2> QED BY <2>6, <2>7, <2>8
<1>7. TalliesAreVotes'  BY DEF CountInv, TalliesAreVotes, TallyX
<1>8. ResultIsCount'  BY DEF ResultIsCount
<1> QED BY <1>5, <1>6, <1>7, <1>8 DEF CountInv

LEMMA ProveCountInv ==
    ASSUME IInv, CountInv, ProveCandidate \/ ProveTotal PROVE CountInv'
<1> USE DEF ProveCandidate, ProveTotal, totals, sums
<1>1. CountTypes'  BY DEF CountInv, CountTypes
<1>2. SharesAddUp'  BY DEF CountInv, SharesAddUp, ShareX
<1>3. TalliesAreVotes'  BY DEF CountInv, TalliesAreVotes, TallyX
<1>4. ResultIsCount'  BY DEF ResultIsCount
<1> QED BY <1>1, <1>2, <1>3, <1>4 DEF CountInv

LEMMA CastCountInv == ASSUME IInv, IInv', CountInv, Cast PROVE CountInv'
<1> USE DEF Cast, sums, proofs
<1>1. /\ commits \in Seq([Cand -> [x : Residue, y : Residue, z : Point]])
      /\ Len(commits) = N /\ sumX \in [Cand -> Nat] /\ N \in Nat
      /\ \A k \in Cand : sumX[k] % q = Bit(k) % q
      /\ votes \in [Cand -> Nat] /\ accepted /\ SharesVerify
  <2>1. /\ Len(commits) = N
        /\ \A k \in Cand : sumX[k] % q = Bit(k) % q
        /\ accepted
    BY DEF IInv, SharesCounted, SumsAreVote
  <2>2. SharesVerify
    BY <2>1 DEF IInv, SharesOpen, SharesVerify, Tellers
  <2> QED BY <2>1, <2>2, TellersFinite
        DEF IInv, BallotTypeOK, CountInv, CountTypes
<1>2. tally' = [i \in Tellers |-> [k \in Cand |->
                 [x |-> tally[i][k].x + commits[i][k].x,
                  y |-> tally[i][k].y + commits[i][k].y]]]
  BY <1>1
<1>3. votes' = [k \in Cand |-> votes[k] + Bit(k)]  OBVIOUS
<1>4. \A k \in Cand : Bit(k) \in Nat  BY DEF Bit
<1>5. CountTypes'
  BY <1>1, <1>3, <1>4, ElectionAssumption DEF CountInv, CountTypes
<1>6. SharesAddUp'  BY DEF CountInv, SharesAddUp, ShareX
<1>7. TalliesAreVotes'
  <2> SUFFICES ASSUME NEW k \in Cand
               PROVE  \E p : /\ PartialSums(p, TallyX(k)', N)
                             /\ p[N] % q = votes'[k] % q
    BY DEF TalliesAreVotes
  <2>1. PICK p : PartialSums(p, ShareX(k), N) /\ p[N] = sumX[k]
    BY <1>1 DEF CountInv, SharesAddUp
  <2>2. PICK r : PartialSums(r, TallyX(k), N) /\ r[N] % q = votes[k] % q
    BY DEF CountInv, TalliesAreVotes
  <2> DEFINE s == [i \in 0 .. N |-> r[i] + p[i]]
  <2>3. /\ p \in [0 .. N -> Int] /\ r \in [0 .. N -> Int]
        /\ p[0] = 0 /\ r[0] = 0
    BY <2>1, <2>2 DEF PartialSums
  <2>4. s \in [0 .. N -> Int] /\ s[0] = 0 /\ s[N] = r[N] + p[N]
    BY <1>1, <2>3
  <2>5. ASSUME NEW i \in 1 .. N
        PROVE  s[i] = s[i - 1] + TallyX(k)'[i]
    <3>1. /\ r[i] = r[i - 1] + tally[i][k].x
          /\ p[i] = p[i - 1] + commits[i][k].x
      BY <1>1, <2>1, <2>2 DEF PartialSums, TallyX, ShareX, Tellers
    <3>2. i \in Tellers /\ i \in 0 .. N /\ i - 1 \in 0 .. N
      BY <1>1 DEF Tellers
    <3>3. TallyX(k)'[i] = tally[i][k].x + commits[i][k].x
      <4>1. TallyX(k)'[i] = tally'[i][k].x  BY <3>2 DEF TallyX
      <4> QED BY <1>2, <3>2, <4>1
    <3>4. tally[i][k].x \in Int /\ commits[i][k].x \in Int
      <4>1. tally \in [Tellers -> [Cand -> [x : Nat, y : Nat]]]
        BY DEF IInv, BallotTypeOK
      <4>2. tally[i][k] \in [x : Nat, y : Nat]  BY <3>2, <4>1
      <4>3. commits[i] \in [Cand -> [x : Residue, y : Residue, z : Point]]
        BY <1>1
      <4>4. commits[i][k].x \in Residue  BY <4>3
      <4> QED BY <4>2, <4>4, ResidueInt
    <3>5. s[i] = r[i] + p[i] /\ s[i - 1] = r[i - 1] + p[i - 1]
      BY <3>2
    <3>6. r[i - 1] \in Int /\ p[i - 1] \in Int  BY <2>3, <3>2
    <3> HIDE DEF s
    <3> QED BY <3>1, <3>3, <3>4, <3>5, <3>6
  <2> HIDE DEF s
  <2>6. PartialSums(s, TallyX(k)', N)  BY <2>4, <2>5 DEF PartialSums
  <2>7. s[N] % q = votes'[k] % q
    <3>1. /\ r[N] \in Int /\ p[N] \in Int /\ votes[k] \in Int
          /\ Bit(k) \in Int /\ sumX[k] % q = Bit(k) % q
      BY <1>1, <1>4, <2>3
    <3>2. (r[N] + p[N]) % q = (votes[k] + Bit(k)) % q
      BY <2>1, <2>2, <3>1, ModAdd
    <3> QED BY <1>3, <2>4, <3>2
  <2> QED BY <2>6, <2>7
<1>8. ResultIsCount'  BY DEF ResultIsCount
<1> QED BY <1>5, <1>6, <1>7, <1>8 DEF CountInv

\* What the ESP finds.
LEMMA CountsFound ==
    ASSUME IInv, CountInv, NEW k \in Cand
    PROVE  /\ SumOver([i \in Tellers |-> CountX(i, k)]) \in Int
           /\ SumOver([i \in Tellers |-> CountY(i, k)]) \in Int
           /\ SumOver([i \in Tellers |-> CountX(i, k)]) % q = votes[k] % q
           /\ ProductOver([i \in Tellers |-> product[i][k]])
                = gen_z(SumOver([i \in Tellers |-> CountX(i, k)]),
                        SumOver([i \in Tellers |-> CountY(i, k)]))
<1> DEFINE f == [i \in Tellers |-> CountX(i, k)]
           g == [i \in Tellers |-> CountY(i, k)]
           points == [i \in Tellers |-> product[i][k]]
<1>1. ASSUME NEW i \in Tellers
      PROVE  /\ tally[i][k].x \in Int /\ tally[i][k].y \in Int
             /\ CountX(i, k) \in Int /\ CountY(i, k) \in Int
             /\ CountX(i, k) % q = tally[i][k].x % q
             /\ product[i][k] = gen_z(CountX(i, k), CountY(i, k))
  <2>1. tally[i][k].x \in Int /\ tally[i][k].y \in Int
    <3>1. tally \in [Tellers -> [Cand -> [x : Nat, y : Nat]]]
      BY DEF IInv, BallotTypeOK
    <3>2. tally[i][k] \in [x : Nat, y : Nat]  BY <3>1
    <3> QED BY <3>2
  <2>2. gen_z(tally[i][k].x, tally[i][k].y) = product[i][k]
    BY DEF IInv, TotalsOpen, verify_xyz
  <2>3. /\ CountX(i, k) \in Int /\ CountX(i, k) % q = tally[i][k].x % q
        /\ CountY(i, k) \in Int /\ CountY(i, k) % q = tally[i][k].y % q
    BY <2>1, ModIdem DEF CountX, CountY
  <2> QED BY <2>1, <2>2, <2>3, GenEqual
<1>2. f \in [Tellers -> Int] /\ g \in [Tellers -> Int]  BY <1>1
<1>3. points = [i \in Tellers |-> gen_z(f[i], g[i])]  BY <1>1
<1>4. TallyX(k) \in [Tellers -> Int]  BY <1>1 DEF TallyX
<1>5. \A i \in Tellers : f[i] % q = TallyX(k)[i] % q
  BY <1>1 DEF TallyX
<1> HIDE DEF f, g, points
<1>6. PICK F : SetSums(F, f) /\ SumOver(f) = F[Tellers]
  BY <1>2, SumOverIsSum
<1>7. PICK p : PartialSums(p, TallyX(k), N) /\ p[N] % q = votes[k] % q
  BY DEF CountInv, TalliesAreVotes
<1>8. F[Tellers] % q = p[N] % q
  BY <1>2, <1>4, <1>5, <1>6, <1>7, SumsAgree
<1>9. /\ SumOver(f) \in Int /\ SumOver(g) \in Int
      /\ ProductOver(points) = gen_z(SumOver(f), SumOver(g))
  BY <1>2, <1>3, ProductOpens
<1> QED BY <1>6, <1>7, <1>8, <1>9 DEF f, g, points

LEMMA CountCountInv == ASSUME IInv, CountInv, Count PROVE CountInv'
<1> USE DEF Count, sums, proofs, totals
<1> DEFINE sx(k) == SumOver([i \in Tellers |-> CountX(i, k)])
           sy(k) == SumOver([i \in Tellers |-> CountY(i, k)])
<1>1. ASSUME NEW k \in Cand
      PROVE  /\ sx(k) \in Int /\ sy(k) \in Int
             /\ sx(k) % q = votes[k] % q
             /\ ProductOver([i \in Tellers |-> product[i][k]])
                  = gen_z(sx(k), sy(k))
  BY CountsFound
<1> HIDE DEF sx, sy
<1>2. result' = [verified |-> CountsVerify,
                 x |-> [k \in Cand |-> sx(k) % q],
                 y |-> [k \in Cand |-> sy(k) % q]]
  BY DEF sx, sy
<1>3. \A k \in Cand : sx(k) % q \in Residue /\ sy(k) % q \in Residue
  BY <1>1, ModRange
<1>4. CountsVerify = TRUE
  <2>1. CountsVerify \in BOOLEAN  BY DEF CountsVerify
  <2> QED BY <2>1, CountsInv
<1>9. /\ result'.verified = TRUE
      /\ result' \in [verified : BOOLEAN, x : [Cand -> Residue],
                     y : [Cand -> Residue]]
  <2> HIDE DEF Count
  <2> QED BY <1>2, <1>3, <1>4
<1>5. CountTypes'
  BY <1>9 DEF CountInv, CountTypes
<1>6. SharesAddUp'  BY DEF CountInv, SharesAddUp, ShareX
<1>7. TalliesAreVotes'  BY DEF CountInv, TalliesAreVotes, TallyX
<1>8. ResultIsCount'
  <2>1. ASSUME NEW k \in Cand
        PROVE  /\ result'.x[k] = votes'[k] % q
               /\ verify_xyz(result'.x[k], result'.y[k],
                      ProductOver([i \in Tellers |-> product'[i][k]]))
    <3>1. result'.x[k] = sx(k) % q /\ result'.y[k] = sy(k) % q
      BY <1>2
    <3>2. gen_z(sx(k) % q, sy(k) % q) = gen_z(sx(k), sy(k))
      <4>1. PICK a \in Int, b \in Int : a = sx(k) /\ b = sy(k)
        BY <1>1
      <4>2. gen_z(a % q, b % q) = gen_z(a, b)  BY GenReduced
      <4> QED BY <4>1, <4>2
    <3> QED BY <1>1, <3>1, <3>2 DEF verify_xyz
  <2> HIDE DEF Count
  <2> QED BY <1>9, <2>1 DEF ResultIsCount
<1> QED BY <1>5, <1>6, <1>7, <1>8 DEF CountInv

LEMMA CountInvStep == IInv /\ IInv' /\ CountInv /\ [Next]_vars => CountInv'
<1> SUFFICES ASSUME IInv, IInv', CountInv, [Next]_vars PROVE CountInv'
  OBVIOUS
<1>1. ASSUME NEW cid \in Cand \cup {Blank}, Vote(cid) PROVE CountInv'
  BY <1>1, VoteCountInv
<1>2. CASE Share  BY <1>2, ShareCountInv
<1>3. CASE ProveCandidate \/ ProveTotal  BY <1>3, ProveCountInv
<1>4. CASE Cast  BY <1>4, CastCountInv
<1>5. CASE Count  BY <1>5, CountCountInv
<1>6. CASE UNCHANGED vars
  BY <1>6 DEF vars, sums, proofs, totals, CountInv, CountTypes, SharesAddUp,
              ShareX, TalliesAreVotes, TallyX, ResultIsCount
<1>7. CASE Counted  BY <1>6, <1>7 DEF Counted
<1> QED BY <1>1, <1>2, <1>3, <1>4, <1>5, <1>6, <1>7 DEF Next

\* The invariant of the count holds in every reachable state.
THEOREM SpecCountInv == Spec => []CountInv
BY InitCountInv, CountInvStep, SpecIInv, PTL DEF Spec

\* The variables keep their types: sums over any number of ballots are natural
\* numbers, what is published and the final result are residues.
THEOREM TypeCorrect == Spec => []TypeOK
<1>1. IInv /\ CountInv => TypeOK  BY DEF IInv, CountInv, CountTypes, TypeOK
<1> QED BY <1>1, SpecIInv, SpecCountInv, PTL

\* The final result of the ESP (finallyTallying.js:83-138) is, modulo the order,
\* the number of votes of every candidate, and opens the product of all
\* commitments, in elections of every size and with any shares: the tellers'
\* sums mean nothing one by one.
THEOREM ResultIsAlwaysCount == Spec => []ResultIsCount
<1>1. CountInv => ResultIsCount  BY DEF CountInv
<1> QED BY <1>1, SpecCountInv, PTL
=============================================================================
