----------------------------- MODULE MCComputations -----------------------------
(***************************************************************************)
(* The arithmetic and the symmetric primitives, one beside the other for   *)
(* one run of TLC: a behaviour is a computation of the part `component`    *)
(* names.  That of KyberNtt, whose names are used as they are, is at its   *)
(* start in the others; their variables have no value where they are not   *)
(* in use.                                                                 *)
(***************************************************************************)
EXTENDS KyberNtt, Sequences

CONSTANTS
    Components,
    PackedPositions, PackedRests,               \* KyberPolyCheck
    Rank, N, FirstBlocks, BlockValues, Values, MaxBlocks, \* KyberMatrix
    Ks, Seeds, Coins,                           \* KyberIndcpa
    FirstBits,                                  \* Keccak
    KeySeeds, Starts, Calls, Sampled, MaxPrf,   \* Aes256ctr
    MaxLen, HashedLens,                         \* Sha2
    IntBits, ByteBits, LANES, ArrayBytes, MaxArray, \* KyberUtils
    None

VARIABLES
    component,
    x, n, rest,
    row, column, entry, taken, stream,
    K, seed, msg, coins, cpaPc, pk, sk, ct, decrypted,
    round, state, reference, lfsr,
    calls, ivw, nonce, skey, roundKeys, aesRound, q, aesS, words,
    v, in, shaK, t, w, shaS, shaState, W, h, H,
    number, arrayA, arrayB

polyVars   == <<x, n, rest>>
matrixVars == <<row, column, entry, taken, stream>>
indcpaVars == <<K, seed, msg, coins, cpaPc, pk, sk, ct, decrypted>>
keccakVars == <<round, state, reference, lfsr>>
aesVars    == <<calls, ivw, nonce, skey, roundKeys, aesRound, q, aesS, words>>
shaVars    == <<v, in, shaK, t, w, shaS, shaState, W, h, H>>
utilVars   == <<number, arrayA, arrayB>>
-----------------------------------------------------------------------------
(***************************************************************************)
(* Inputs.                                                                 *)
(***************************************************************************)
\* Random looking coefficients in -q .. q.
Mixed(a) ==
    [i \in Index |-> ((4057 * i * (i + a) + 7919 * i + 12345 * a) % (2*KYBER_Q + 1)) - KYBER_Q]

Noise(a) == [i \in Index |-> (Mixed(a)[i] % 5) - 2]

AllQ == [i \in Index |-> KYBER_Q]

InputPolynomials  == {AllQ, [i \in Index |-> IF i < 128 THEN KYBER_Q ELSE -KYBER_Q], Mixed(1), Noise(7)}

\* The factor is transformed.  Its first two coefficients are q - 1 for this polynomial; to
\* these 3q are added, to the others up to 3q.
FactorPolynomials  == {[Noise(3) EXCEPT ![0] = -1027, ![1] = -1706]}
UpToFourQ(f)       == [i \in Index |-> f[i] + KYBER_Q * ((3 + i \div 2) % 4)]
TransformedFactors == {UpToFourQ(Residues(g, 2)) : g \in FactorPolynomials}

\* Single bits show where each bit goes; the others are at the ends of the range.
BitValues == {0, 1, 2, 4, 8, 16, 32, 64, 128, 256, 512, 1024, 2048, 3328, 3329}
AllValues == 0 .. KYBER_Q

\* In place of the output of SHAKE: the bytes of the PRF, and coefficients as rej_uniform
\* returns them, reduced once, up to 13315.
Mix(a, b, m) == (4057 * ((m + a) % 251) * ((m + b) % 509) + 7919 * m + 104729 * b + 1299 * a) % 65521

PseudoPrf(a, b) == [m \in 0 .. 127 |-> Mix(a, b, m) % 256]
PseudoEntry(a, b, c) == [m \in Index |-> Mix(a + 17*b, 31*c, m) % 13316]

MessagePatterns == {[m \in Index |-> 0], [m \in Index |-> 1], [m \in Index |-> Mix(5, 9, m) % 2]}

\* A nonce as xof makes it, and one with bits everywhere.
NonceSet ==
    {[i \in 1 .. 12 |-> CASE i = 1 -> {1} [] i = 2 -> {0, 1} [] OTHER -> {}],
     [i \in 1 .. 12 |-> {b \in 0 .. 7 : (i + b) % 3 = 0}]}

\* In place of the tables of SHA-2: words with a part of the bits, all different.
WordBits(a)     == IF a = "sha256" THEN 0 .. 31 ELSE 0 .. 63
IvStandIn(a, i) == {b \in WordBits(a) : (b * (2*i + 1) + i) % 3 = 0}
KStandIn(a, i)  == {b \in WordBits(a) : ((b + 3) * (i + 7) + i) % 5 < 2}

Packing  == INSTANCE KyberPolyCheck WITH Values <- BitValues, Positions <- PackedPositions, Rests <- PackedRests
Rounding == INSTANCE KyberPolyCheck WITH Values <- AllValues, Positions <- {0}, Rests <- {0}
Matrix   == INSTANCE KyberMatrix WITH i <- row, j <- column, a <- entry, ctr <- taken
Indcpa   == INSTANCE KyberIndcpa WITH Messages <- MessagePatterns, Prf <- PseudoPrf, Entry <- PseudoEntry, pc <- cpaPc
Keccak   == INSTANCE Keccak
Aes      == INSTANCE Aes256ctr WITH Nonces <- NonceSet, n <- calls, round <- aesRound, sk <- roundKeys, s <- aesS
Utils    == INSTANCE KyberUtils WITH n <- number, a <- arrayA, b <- arrayB, MaxLen <- MaxArray, Bytes <- ArrayBytes
Sha      == INSTANCE Sha2 WITH InitialWord <- IvStandIn, RoundWord <- KStandIn, s <- shaS, k <- shaK, state <- shaState
-----------------------------------------------------------------------------
ComputationsInit ==
    /\ component \in Components
    /\ Init /\ (component = "ntt" \/ p = AllQ)
    /\ CASE component = "packing" -> Packing!Init
         [] component = "rounding" -> Rounding!Init
         [] OTHER -> x = None /\ n = None /\ rest = None
    /\ IF component = "matrix" THEN Matrix!Init
       ELSE row = None /\ column = None /\ entry = None /\ taken = None /\ stream = None
    /\ IF component = "indcpa" THEN Indcpa!Init
       ELSE /\ K = None /\ seed = None /\ msg = None /\ coins = None /\ cpaPc = None
            /\ pk = None /\ sk = None /\ ct = None /\ decrypted = None
    /\ IF component = "keccak" THEN Keccak!Init
       ELSE round = None /\ state = None /\ reference = None /\ lfsr = None
    /\ IF component = "aes" THEN Aes!Init
       ELSE /\ calls = None /\ ivw = None /\ nonce = None /\ skey = None /\ aesRound = None
            /\ q = None /\ roundKeys = None /\ aesS = None /\ words = None
    /\ IF component = "sha2" THEN Sha!Init
       ELSE /\ v = None /\ in = None /\ shaK = None /\ t = None /\ w = None
            /\ shaS = None /\ shaState = None /\ W = None /\ h = None /\ H = None
    /\ IF component = "utils" THEN Utils!Init ELSE number = None /\ arrayA = None /\ arrayB = None

ComputationsNext ==
    /\ \/ /\ component = "ntt" /\ Next
          /\ UNCHANGED <<polyVars, matrixVars, indcpaVars, keccakVars, aesVars, shaVars, utilVars>>
       \/ /\ component = "packing" /\ Packing!Next
          /\ UNCHANGED <<vars, matrixVars, indcpaVars, keccakVars, aesVars, shaVars, utilVars>>
       \/ /\ component = "rounding" /\ Rounding!Next
          /\ UNCHANGED <<vars, matrixVars, indcpaVars, keccakVars, aesVars, shaVars, utilVars>>
       \/ /\ component = "matrix" /\ Matrix!Next
          /\ UNCHANGED <<vars, polyVars, indcpaVars, keccakVars, aesVars, shaVars, utilVars>>
       \/ /\ component = "indcpa" /\ Indcpa!Next
          /\ UNCHANGED <<vars, polyVars, matrixVars, keccakVars, aesVars, shaVars, utilVars>>
       \/ /\ component = "keccak" /\ Keccak!Next
          /\ UNCHANGED <<vars, polyVars, matrixVars, indcpaVars, aesVars, shaVars, utilVars>>
       \/ /\ component = "aes" /\ Aes!Next
          /\ UNCHANGED <<vars, polyVars, matrixVars, indcpaVars, keccakVars, shaVars, utilVars>>
       \/ /\ component = "sha2" /\ Sha!Next
          /\ UNCHANGED <<vars, polyVars, matrixVars, indcpaVars, keccakVars, aesVars, utilVars>>
       \/ /\ component = "utils" /\ Utils!Next
          /\ UNCHANGED <<vars, polyVars, matrixVars, indcpaVars, keccakVars, aesVars, shaVars>>
    /\ UNCHANGED component

ComputationsSpec ==
    ComputationsInit
    /\ [][ComputationsNext]_<<component, vars, polyVars, matrixVars, indcpaVars, keccakVars, aesVars, shaVars, utilVars>>
-----------------------------------------------------------------------------
\* Between two layers block b of 2*len coefficients holds the input modulo
\* X^(2*len) - Root: the loops of ntt with the table of zetas split the ring.
BlocksAreResidues ==
    /\ pc = "ntt" /\ j = 0 => SamePolynomial(r, Residues(p, 2 * len))
    /\ pc = "poly_reduce" => SamePolynomial(r, Residues(p, 2))

\* ntt, basemul and invntt together multiply modulo X^256 + 1 and q, with all
\* Montgomery factors cancelled.
ComputesProduct ==
    pc = "done" => \E g \in FactorPolynomials :
                       SamePolynomial(s, Residues(g, 2)) /\ SamePolynomial(r, NegacyclicProduct(p, g))

(***************************************************************************)
(* What the run checks: the properties of the modules, stated there one by *)
(* one, taken together where they are about one promise.                   *)
(***************************************************************************)
\* The arithmetic of Kyber is exact from layer to layer and over all factors 2^16, both
\* representatives of zero included; packing loses nothing, compression no more than a
\* rounding, noise takes bits of its own; so what was encrypted is decrypted, in keys and
\* ciphertexts of the sizes params.h declares.  An entry of the matrix is the accepted values
\* of its stream, wherever the blocks end.
KyberIsExact ==
    /\ component = "ntt" => LoopInv /\ BlocksAreResidues /\ ComputesProduct
    /\ component = "packing" =>
           Packing!UnpackInvertsPack /\ Packing!BytesKeepCoefficients /\ Packing!NoiseFromOwnBits
    /\ component = "rounding" => Rounding!CompressionIsClose /\ Rounding!MessageToleratesNoise
    /\ component = "matrix" => Matrix!EntryIsPrefix /\ Matrix!BelowFourQ
    /\ component = "indcpa" => Indcpa!DecryptsToMessage /\ Indcpa!SizesAsDeclared

\* The rewritten primitives follow their standards round by round: Keccak with its lanes in
\* place, bitsliced AES with its four counters over all carries and any length, SHA-2 with
\* its schedule in place and padding of every length.  So do the helpers beside them: itoa
\* writes decimal numbers but for the smallest int, verify and cmov take whole arrays.
PrimitivesAreStandard ==
    /\ component = "keccak" => Keccak!IsKeccak
    /\ component = "aes" => Aes!IsAes /\ Aes!CountersFollow /\ Aes!PrfIsPrefix
    /\ component = "sha2" => Sha!IsSha2 /\ Sha!PaddingIsStandard
    /\ component = "utils" =>
           Utils!ItoaIsDecimal /\ Utils!VerifyComparesAll /\ Utils!CmovTakesAllOrNothing
=============================================================================
