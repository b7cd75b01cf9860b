-------------------------------- MODULE Scheme --------------------------------
(***************************************************************************)
(* Shares, and what rebuilds shares and secrets from them:                 *)
(* crypto_lib/lagrange.rs, scheme.rs, the KZG commitments of Bingo and the *)
(* low degree test of the others.                                          *)
(*                                                                         *)
(* A node is its index, and has the root of unity of that index.  The      *)
(* scalars of a batch go through the same computations one by one, and so  *)
(* does the randomness that blinds them: a share has one scalar here.  A   *)
(* group element is its logarithm, so that a commitment hides nothing but  *)
(* opens to what it was made of only.                                      *)
(***************************************************************************)
EXTENDS Polynomials

CONSTANT Tau  \* the secret exponent of BlstrsKZG::new

ASSUME TauAssumption == Tau \in Scalar

-----------------------------------------------------------------------------
(* accumulator_poly_helper: the polynomial whose roots are those of the    *)
(* indices T.  With every root of the domain the last factor is multiplied *)
(* by itself, for the transform has no room for the product.               *)
Accumulator(omegas, T) ==
    LET roots == Table([i \in DOMAIN T |-> omegas[T[i]]])
    IN  IF Len(T) < Size(omegas)
        THEN accumulator_poly(roots, omegas)
        ELSE poly_mul_slow(accumulator_poly(<<Last(roots)>>, omegas),
                           accumulator_poly(Front(roots), omegas))

(* The derivative of the accumulator at each index of T, inverted.         *)
Denominators(omegas, Z, T) ==
    LET slope == fft(poly_differentiate(Z), Subdomain(omegas, Size(omegas)))
    IN  Table([i \in DOMAIN T |-> Inverse0[slope[T[i]]]])

(* compute_numerators_at_zero: minus one over the root i is the root of    *)
(* index N/2 - i.  The variant forgets the sign.                           *)
UnsignedAtZero(omegas, T, Z0) ==
    LET N == Size(omegas) IN [i \in DOMAIN T |-> Times(Z0, omegas[(N - T[i]) % N])]

NumeratorsAtZero(omegas, T, Z0) ==
    LET N == Size(omegas)
        idx(i) == IF N \div 2 < i THEN N + N \div 2 - i ELSE N \div 2 - i
    IN  [i \in DOMAIN T |-> Times(Z0, omegas[idx(T[i])])]

lagrange_coefficients_at_zero(omegas, T) ==
    LET Z == Accumulator(omegas, T)
        above == NumeratorsAtZero(omegas, T, Z[0])
        below == Denominators(omegas, Z, T)
    IN  Table([i \in DOMAIN T |-> Times(above[i], below[i])])

(* compute_numerators: if alpha is the root of one of the indices, the     *)
(* accumulator is zero there and so are all of them.                       *)
Numerators(omegas, Z, T, alpha) ==
    LET value == poly_eval(Z, alpha)
    IN  [i \in DOMAIN T |-> Times(value, Inverse0[Minus(alpha, omegas[T[i]])])]

lagrange_coefficients(omegas, T, alpha) ==
    LET Z == Accumulator(omegas, T)
        above == Numerators(omegas, Z, T, alpha)
        below == Denominators(omegas, Z, T)
    IN  Table([i \in DOMAIN T |-> Times(above[i], below[i])])

Combine(coeffs, values) ==
    Total(LAMBDA i : coeffs[i] * values[i], 1, Len(coeffs))

-----------------------------------------------------------------------------
(* A list of shares: their indices, and their scalars.                     *)
Selected(shares) == [i \in DOMAIN shares |-> shares[i].index]
Values(shares) == [i \in DOMAIN shares |-> shares[i].share]
Proofs(shares) == [i \in DOMAIN shares |-> shares[i].proof]

(* The numbers of a set in increasing order: shares are sorted by index.   *)
InOrder(T) ==
    Table([k \in 1..Cardinality(T) |->
             CHOOSE i \in T : Cardinality({j \in T : j < i}) = k - 1])

Share(i, s, w) == [index |-> i, share |-> s, proof |-> w]

Corrupt(share) == [share EXCEPT !.share = Plus(@, 1)]

(* interpolate, and interpolate_on_zero: the value at zero.                *)
interpolate(omegas, shares) ==
    Combine(lagrange_coefficients_at_zero(omegas, Selected(shares)),
            Values(shares))

(* interpolate_specific_share, and kzg_interpolate_specific_share.         *)
interpolate_specific_share(omegas, shares, i) ==
    Combine(lagrange_coefficients(omegas, Selected(shares), omegas[i]),
            Values(shares))

(* complete_evaluations_with_proofs: k evaluations in their order, those   *)
(* of the shares, that are sorted, and those between them interpolated.    *)
CompleteEvaluations(k, shares, omegas) ==
    LET Interpolated(i, coeffs) ==
          Share(i, Combine(coeffs, Values(shares)), Combine(coeffs, Proofs(shares)))
    IN  Table([i \in 1..k |->
                 IF \E s \in ToSet(shares) : s.index = i - 1
                 THEN CHOOSE s \in ToSet(shares) : s.index = i - 1
                 ELSE Interpolated(i - 1,
                        lagrange_coefficients(omegas, Selected(shares), omegas[i - 1]))])

(* kzg_interpolate_all: the share of node i is one of a line, at the root  *)
(* of i + 1.  The variant does not skip the first.                         *)
InterpolateUnskipped(omegas, n, shares) ==
    LET shifted == [i \in DOMAIN shares |-> [shares[i] EXCEPT !.index = @ + 1]]
    IN  SubSeq(CompleteEvaluations(Size(omegas), shifted, omegas), 1, n)

kzg_interpolate_all(omegas, n, shares) ==
    LET shifted == [i \in DOMAIN shares |-> [shares[i] EXCEPT !.index = @ + 1]]
    IN  SubSeq(CompleteEvaluations(Size(omegas), shifted, omegas), 2, n + 1)

(* kzg_interpolate_all_without_proofs                                      *)
InterpolateLine(omegas, n, shares) ==
    SubSeq(CompleteEvaluations(Size(omegas), shares, omegas), 1, n)

-----------------------------------------------------------------------------
(* BiVariatePoly::evaluate_on_y: F is a vector of polynomials in y, and    *)
(* what is left is the polynomial in x.                                    *)
evaluate_on_y(F, y) == Table([c \in DOMAIN F |-> poly_eval(F[c], y)])

(* BlstrsKZG::commit                                                       *)
Commit(p) == poly_eval(p, Tau)

(* BlstrsKZG::open: the quotient by X - x of the polynomial less its value *)
(* at x, by div_ref.                                                       *)
Open(p, eval, x) ==
    LET d == Size(p) - 1
        q[i \in 0..d - 1] ==
          IF i = d - 1 THEN p[d] ELSE Plus(p[i + 1], Times(x, q[i + 1]))
    IN  IF d = 0 THEN 0 ELSE Commit(q)

(* BlstrsKZG::verify                                                       *)
KzgVerify(comm, x, value, witness) ==
    Minus(comm, value) = Times(witness, Minus(Tau, x))

-----------------------------------------------------------------------------
(* all_lagrange_denominators                                               *)
AllDenominators(omegas, n) ==
    LET A == Accumulator(omegas, [i \in 1..n |-> i - 1])
        slope == fft(poly_differentiate(A), Subdomain(omegas, n))
    IN  Table([i \in 0..n - 1 |-> Inverse0[slope[i]]])

(* get_dual_code_word draws this many coefficients: the first operator is  *)
(* a variant, with two more.                                               *)
LooseDualSize(n, deg) == n - deg

DualSize(n, deg) == n - deg - 2

DualCodeWord(omegas, n, g) ==
    LET f == fft(g, Subdomain(omegas, n))
        v == AllDenominators(omegas, n)
    IN  Table([i \in 0..n - 1 |-> Times(v[i], f[i])])

(* low_deg_test, of a commitment to n evaluations, with the coefficients g *)
(* that are drawn for it.                                                  *)
low_deg_test(omegas, n, threshold, comm, g) ==
    \/ threshold = n
    \/ LET word == DualCodeWord(omegas, n, g)
       IN  Total(LAMBDA i : comm[i] * word[i], 0, n - 1) = 0
=============================================================================
