------------------------------ MODULE Polynomials ------------------------------
(***************************************************************************)
(* The arithmetic that the shares are made with, in nodes/src/crypto:      *)
(* evaluation domains of 2^k roots of unity, the Fourier transform and the *)
(* products of polynomials.                                                *)
(*                                                                         *)
(* A Scalar is a number below the prime P, small here.  A vector is a      *)
(* function on 0..k-1, as a Vec is; a polynomial is the vector of its      *)
(* coefficients.                                                           *)
(***************************************************************************)
EXTENDS Integers, FiniteSets, FiniteSetsExt, SequencesExt, TLC

CONSTANTS
    P,           \* the order of the field
    RootOfUnity, \* Scalar::root_of_unity
    TwoAdicity,  \* Scalar::S: the order of RootOfUnity is 2^TwoAdicity
    FFTThresh    \* FFT_THRESH, 64 in the code

Scalar == 0..P - 1

Plus(a, b) == (a + b) % P
Minus(a, b) == (a + P - b) % P
Times(a, b) == (a * b) % P

(* batch_invert leaves a zero as it is.                                    *)
Inverse0 == [a \in Scalar |->
               IF a = 0 THEN 0 ELSE CHOOSE b \in Scalar : Times(a, b) = 1]

(* The sum of the terms a to b.                                            *)
Total(term(_), a, b) ==
    LET sum[i \in a - 1..b] ==
          IF i < a THEN 0 ELSE Plus(sum[i - 1], term(i) % P)
    IN  sum[b]

(* The vector itself: TLC keeps what @@ returns as a table, and evaluates  *)
(* the elements of another function each time they are read.               *)
Table(v) == v @@ <<>>

Powers ==
    [x \in Scalar |->
       LET pow[k \in 0..2 ^ TwoAdicity] ==
             IF k = 0 THEN 1 ELSE Times(pow[k - 1], x)
       IN  Table(pow)]
Power(x, k) == Powers[x][k]

ASSUME FieldAssumption ==
    /\ P \in Nat /\ P > 1 /\ \A a \in 2..P - 1 : P % a # 0
    /\ RootOfUnity \in Scalar
    /\ Power(RootOfUnity, 2 ^ (TwoAdicity - 1)) = P - 1

Size(v) == Cardinality(DOMAIN v)

(* resize with zeros, and truncate.                                        *)
Resize(v, k) ==
    Table([i \in 0..k - 1 |-> IF i \in DOMAIN v THEN v[i] ELSE 0])

poly_eval(f, x) == Total(LAMBDA i : f[i] * Power(x, i), 0, Size(f) - 1)

-----------------------------------------------------------------------------
(* smallest_power_of_2_greater_or_eq_than: the exponent of it.             *)
LogOf(k) == Min({e \in 0..TwoAdicity : 2 ^ e >= k})

(* BatchEvaluationDomain::new: the powers of get_Nth_root_of_unity.        *)
BatchDomain(k) ==
    LET omega == Power(RootOfUnity, 2 ^ (TwoAdicity - LogOf(k)))
    IN  [i \in 0..2 ^ LogOf(k) - 1 |-> Power(omega, i)]

(* get_subdomain, of a domain that has at least k roots.                   *)
Subdomain(omegas, k) ==
    LET N == Size(omegas)
        K == 2 ^ LogOf(k)
        idx == N \div K
    IN  [n |-> k, N |-> K, log |-> LogOf(k),
         omega |-> omegas[idx % N],
         omega_inverse |-> omegas[(N - idx) % N],
         N_inverse |-> Inverse0[K % P]]

-----------------------------------------------------------------------------
(* The bits of k, the other way round.                                     *)
BitReverse(k, bits) ==
    MapThenSumSet(LAMBDA b : ((k \div 2 ^ b) % 2) * 2 ^ (bits - 1 - b),
                  0..bits - 1)

(* One round of serial_fft_assign: the halves of each block of 2m          *)
(* elements are combined, in place.                                        *)
Butterfly(a, m, omega) ==
    LET n == Size(a)
        w_m == Power(omega, n \div (2 * m))
        High(k) == Times(a[k], Power(w_m, k % m))
    IN  Table([k \in 0..n - 1 |->
                 IF k % (2 * m) < m THEN Plus(a[k], High(k + m))
                                    ELSE Minus(a[k - m], High(k))])

(* serial_fft_assign.  The variant leaves the elements in the order they   *)
(* come in.                                                                *)
UnswappedFft(a, omega, log) ==
    FoldLeft(LAMBDA b, m : Butterfly(b, m, omega),
             a, [s \in 1..log |-> 2 ^ (s - 1)])

serial_fft(a, omega, log) ==
    FoldLeft(LAMBDA b, m : Butterfly(b, m, omega),
             [k \in DOMAIN a |-> a[BitReverse(k, log)]],
             [s \in 1..log |-> 2 ^ (s - 1)])

fft(f, dom) == serial_fft(Resize(f, dom.N), dom.omega, dom.log)

ifft(a, dom) ==
    LET b == serial_fft(a, dom.omega_inverse, dom.log)
    IN  Table([k \in DOMAIN b |-> Times(b[k], dom.N_inverse)])

-----------------------------------------------------------------------------
poly_mul_slow(f, g) ==
    Table([k \in 0..Size(f) + Size(g) - 2 |->
             Total(LAMBDA i : IF i \in DOMAIN f /\ k - i \in DOMAIN g
                               THEN f[i] * g[k - i] ELSE 0, 0, k)])

(* poly_mul_assign_fft_with_dom                                            *)
poly_mul_fft(f, g, dom) ==
    LET a == fft(f, dom)
        b == fft(g, dom)
    IN  Resize(ifft(Table([k \in DOMAIN a |-> Times(a[k], b[k])]), dom), dom.n)

poly_differentiate(f) ==
    Table([i \in 0..Size(f) - 2 |-> Times(f[i + 1], (i + 1) % P)])

(* The product that accumulator_poly makes of two halves.                  *)
poly_mul(f, g, omegas) ==
    IF Size(f) + Size(g) - 1 < FFTThresh
    THEN poly_mul_slow(f, g)
    ELSE poly_mul_fft(f, g, Subdomain(omegas, Size(f) + Size(g) - 1))

(* The product of the X - s, for the elements s of a sequence that is not  *)
(* empty.  Up to three they are multiplied out; in halves otherwise.       *)
RECURSIVE accumulator_poly(_, _)
accumulator_poly(S, omegas) ==
    LET k == Len(S)
        root(i) == Minus(0, S[i])
        MultipliedOut ==
          CASE k = 1 -> <<root(1), 1>>
            [] k = 2 -> <<Times(S[1], S[2]), Plus(root(1), root(2)), 1>>
            [] k = 3 -> <<Times(root(1), Times(S[2], S[3])),
                          Plus(Times(S[1], Plus(S[2], S[3])), Times(S[2], S[3])),
                          Plus(root(1), Plus(root(2), root(3))), 1>>
    IN  IF k <= 3 THEN Table([d \in 0..k |-> MultipliedOut[d + 1]])
        ELSE poly_mul(accumulator_poly(SubSeq(S, 1, k \div 2), omegas),
                      accumulator_poly(SubSeq(S, k \div 2 + 1, k), omegas),
                      omegas)
=============================================================================
