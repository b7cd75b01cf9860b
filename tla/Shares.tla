-------------------------------- MODULE Shares --------------------------------
(***************************************************************************)
(* The shares of a secret, from the polynomial that a dealer draws to what *)
(* each node holds and rebuilds, whichever messages come first.  Who sends *)
(* what and when is the business of the protocol modules; here every set   *)
(* of messages that is large enough may be the first.                      *)
(*                                                                         *)
(* All that is computed is linear in the coefficients drawn, so that the   *)
(* polynomials with one coefficient stand for all, and one more is drawn   *)
(* that has no zero.                                                       *)
(***************************************************************************)
EXTENDS Scheme

CONSTANT Cases  \* records of an algorithm, n, t, and the batch size

ASSUME CasesAssumption ==
    \A c \in Cases : c.n > 2 * c.t /\ c.t > 0 /\ c.batch > 0

VARIABLES
    deal,   \* the case, the nodes served, and what the dealer draws
    byz,    \* Byzantine nodes
    lines,  \* Bingo: the line of each node and its commitment
    cols,   \* the shares of its line that a node has sent
    rows,   \* the shares of its column that a node has sent, node by node
    held,   \* each node's share; in Bingo, its list of shares
    tested, \* low_deg_test: "no", "passed" or "failed"
    secret  \* <<what AvssSimpl rebuilds>>, or <<a node of Bingo, what it sends>>

vars == <<deal, byz, lines, cols, rows, held, tested, secret>>

None == -1     \* nothing yet
Empty == -2    \* a share without a scalar
Crashed == -3  \* the handler has panicked

(* Polynomials of k coefficients.                                          *)
Drawn(k) ==
    {[i \in 0..k - 1 |-> IF i = j THEN 1 ELSE 0] : j \in 0..k - 1}
    \cup {[i \in 0..k - 1 |-> (5 + 7 * i * i + 3 * i) % P]}

(* Configuration::degree, with l = t.                                      *)
Degree(c) == IF c.algo = "AvssSimpl" THEN 2 * c.t ELSE c.t
Threshold(c) == Degree(c) + 1

(* Algo::domain_size                                                       *)
DomainSize(c) == IF c.algo = "Bingo" THEN c.n + c.batch ELSE c.n

Nodes == 0..deal.n - 1
omegas == deal.omegas
dom == Subdomain(omegas, DomainSize(deal))

(* BiVariatePoly::random, 2t in x and t in y.                              *)
BiVariates(t) ==
    LET flat == Drawn((2 * t + 1) * (t + 1))
    IN  {[c \in 0..2 * t |-> [k \in 0..t |-> f[c * (t + 1) + k]]] : f \in flat}

(* random_such_that: the polynomial q, with its first coefficient changed  *)
(* so that its value at i is e.                                            *)
SuchThat(q, i, e) == [q EXCEPT ![0] = Plus(@, Minus(e, poly_eval(q, i)))]

(* haven/dealer.rs: a polynomial for each node, whose value at the number  *)
(* of the node is that of the recovery polynomial at its root.             *)
HavenPolys(c, om) ==
    {[i \in 0..c.n - 1 |-> SuchThat(q, i, poly_eval(R, om[i]))] :
       R \in Drawn(c.t + 1), q \in Drawn(c.t + 1)}

(* What the dealer of a case draws, in the domain om.                      *)
Draws(c, om) ==
    CASE c.algo = "Bingo" -> BiVariates(c.t)
      [] c.algo = "Haven" -> HavenPolys(c, om)
      [] OTHER -> Drawn(Threshold(c))

(* The corrupted dealers of LightWeight and HbAvss leave out the last t    *)
(* nodes, as that of Bingo does; AvssSimpl and Badger broadcast the shares *)
(* of all, encrypted.                                                      *)
Serve(c) ==
    IF c.algo \in {"LightWeight", "HbAvss", "Bingo"} THEN {c.n, c.n - c.t} ELSE {c.n}

Init ==
    /\ \E c \in Cases :
         LET om == BatchDomain(DomainSize(c))
         IN  \E d \in Draws(c, om), s \in Serve(c) :
               deal = [algo |-> c.algo, n |-> c.n, t |-> c.t, batch |-> c.batch,
                       served |-> s, poly |-> d, omegas |-> om]
    /\ byz \in IF deal.algo = "Bingo" THEN {{}, {0}} ELSE {{}}
    /\ lines = <<>> /\ cols = <<>> /\ rows = <<>>
    /\ held = [i \in Nodes |-> <<>>]
    /\ tested = "no" /\ secret = <<>>

Simple == deal.algo \notin {"Bingo", "Haven"}

Holders == {i \in Nodes : held[i] # <<>>}

-----------------------------------------------------------------------------
(* compute_comm_and_shares                                                 *)
Evaluations == Resize(fft(deal.poly, dom), deal.n)

DealShares ==
    /\ Simple /\ Holders = {}
    /\ LET evals == Evaluations
       IN  held' = [i \in Nodes |->
                      IF i < deal.served THEN <<Share(i, evals[i], None)>> ELSE <<>>]
    /\ UNCHANGED <<deal, byz, lines, cols, rows, tested, secret>>

(* What a node does with the commitment, whichever coefficients it draws.  *)
Test ==
    /\ Simple /\ tested = "no" /\ Holders # {}
    /\ \E g \in IF DualSize(deal.n, Degree(deal)) = 0 THEN {<<>>}
                ELSE Drawn(DualSize(deal.n, Degree(deal))) :
         tested' = IF low_deg_test(omegas, deal.n, Threshold(deal), Evaluations, g)
                   THEN "passed" ELSE "failed"
    /\ UNCHANGED <<deal, byz, lines, cols, rows, held, secret>>

(* The shares of the first senders, whichever they are, sorted.            *)
Lists(S, k) ==
    {[j \in 1..k |-> held[InOrder(T)[j]][1]] : T \in kSubset(k, S)}

(* recovery_manager of LightWeight and HbAvss: a node that the dealer left *)
(* out, from the shares that t + 1 others send it.                         *)
Recover(i) ==
    /\ deal.algo \in {"LightWeight", "HbAvss"} /\ tested = "passed"
    /\ held[i] = <<>>
    /\ \E shares \in Lists({j \in Holders : j < deal.served}, deal.t + 1) :
         held' = [held EXCEPT ![i] =
                    <<Share(i, interpolate_specific_share(omegas, shares, i), None)>>]
    /\ UNCHANGED <<deal, byz, lines, cols, rows, tested, secret>>

(* reconstruct of AvssSimpl: the shares are in a HashMap, in any order.    *)
Reconstruct ==
    /\ deal.algo = "AvssSimpl" /\ secret = <<>> /\ Holders = Nodes
    /\ \E order \in [1..Threshold(deal) -> Nodes] :
         /\ IsInjective(order)
         /\ secret' = <<interpolate(omegas, [j \in DOMAIN order |-> held[order[j]][1]])>>
    /\ UNCHANGED <<deal, byz, lines, cols, rows, held, tested>>

-----------------------------------------------------------------------------
(* bingo/dealer.rs: the line of node i is at the root of i + 1.            *)
DealLines ==
    /\ deal.algo = "Bingo" /\ lines = <<>>
    /\ lines' = [i \in Nodes |->
                   LET line == evaluate_on_y(deal.poly, omegas[i + 1])
                   IN  [line |-> line, comm |-> Commit(line)]]
    /\ UNCHANGED <<deal, byz, held, cols, rows, tested, secret>>

(* verify_my_line: the shares that a node sends of its line, and keeps.    *)
Cols(i) ==
    LET line == lines[i].line
        evals == fft(line, dom)
        share(j) == Share(i, evals[j], Open(line, evals[j], omegas[j]))
    IN  Table([j \in Nodes |-> IF i \in byz THEN Corrupt(share(j)) ELSE share(j)])

(* The nodes that are served send the shares of their lines.  One of them  *)
(* at most has not taken its own when the shares of the others come.       *)
TakeLines ==
    /\ lines # <<>> /\ cols = <<>>
    /\ LET served == 0..deal.served - 1
       IN  /\ cols' = [i \in served |-> Cols(i)]
           /\ \E late \in SUBSET served :
                /\ Cardinality(late) <= 1
                /\ held' = [i \in Nodes |->
                     IF i \notin served \ late THEN <<>>
                     ELSE [k \in 1..deal.n |-> [cols'[i][k - 1] EXCEPT !.index = k - 1]]]
    /\ UNCHANGED <<deal, byz, lines, rows, tested, secret>>

(* col_manager of the next node j: of the shares that verify, the first    *)
(* t + 1 make its column, whose share at each node it sends there.         *)
SendRow ==
    /\ cols # <<>> /\ Len(rows) < deal.n
    /\ LET j == Len(rows)
           verified == {i \in DOMAIN cols :
                          KzgVerify(lines[i].comm, omegas[j],
                                    cols[i][j].share, cols[i][j].proof)}
       IN  \E T \in kSubset(deal.t + 1, verified) :
             LET shares == [k \in 1..deal.t + 1 |-> cols[InOrder(T)[k]][j]]
                 all == kzg_interpolate_all(omegas, deal.n, shares)
                 Mine(share) == [share EXCEPT !.index = j]
             IN  rows' = Append(rows,
                           [k \in 1..deal.n |-> IF j \in byz THEN Corrupt(Mine(all[k]))
                                                            ELSE Mine(all[k])])
    /\ UNCHANGED <<deal, byz, lines, cols, held, tested, secret>>

(* The assertion of line_manager, at node i for the share that j sent.     *)
RowVerifies(i, j) ==
    KzgVerify(lines[i].comm, omegas[j], rows[j + 1][i + 1].share,
              rows[j + 1][i + 1].proof)

(* line_manager of a node that has no line: 2t+1 shares make its own.      *)
TakeRows(i) ==
    /\ Len(rows) = deal.n /\ held[i] = <<>>
    /\ \E J \in kSubset(2 * deal.t + 1, {j \in Nodes : RowVerifies(i, j)}) :
         LET shares == [k \in 1..2 * deal.t + 1 |-> rows[InOrder(J)[k] + 1][i + 1]]
         IN  held' = [held EXCEPT ![i] = InterpolateLine(omegas, deal.n, shares)]
    /\ UNCHANGED <<deal, byz, lines, cols, rows, tested, secret>>

(* bingo/reconstruct.rs: what a node broadcasts is its line at the root of *)
(* index_secret(0) = n.                                                    *)
SecretShare(i) ==
    /\ deal.algo = "Bingo" /\ i \notin byz /\ held[i] # <<>> /\ secret = <<>>
    /\ secret' = <<i, interpolate_specific_share(omegas, held[i], deal.n)>>
    /\ UNCHANGED <<deal, byz, lines, cols, rows, held, tested>>

-----------------------------------------------------------------------------
(* What node i of Haven receives from j, in the scalar of the first        *)
(* secret: the polynomial of i at the root of j, if messages_handler, that *)
(* runs over the batch and not over the nodes, comes as far as i.          *)
Echo(i, j) == Share(j, fft(deal.poly[i], dom)[j], None)

(* interpolate_and_output, with the shares of more than t nodes: at the    *)
(* root of i + 1, which the last node of a full domain has not got.  The   *)
(* nodes rebuild their shares without each other: one of them does here.   *)
HavenOutput(i) ==
    /\ deal.algo = "Haven" /\ Holders = {}
    /\ \E T \in SUBSET Nodes :
         /\ Cardinality(T) > deal.t
         /\ LET shares == [k \in 1..Cardinality(T) |-> Echo(i, InOrder(T)[k])]
                value == IF i + 1 = Size(omegas) THEN Crashed
                         ELSE IF i >= deal.batch THEN Empty
                         ELSE interpolate_specific_share(omegas, shares, i + 1)
            IN  held' = [held EXCEPT ![i] = <<Share(i, value, None)>>]
    /\ UNCHANGED <<deal, byz, lines, cols, rows, tested, secret>>

Next ==
    \/ DealShares \/ Test \/ Reconstruct
    \/ DealLines \/ TakeLines \/ SendRow
    \/ \E i \in Nodes :
         Recover(i) \/ TakeRows(i) \/ SecretShare(i) \/ HavenOutput(i)

Spec == Init /\ [][Next]_vars

-----------------------------------------------------------------------------
(* What a node holds is the dealer's polynomial at its place, whoever      *)
(* served it: the root of its index, or in Bingo its line at all of them.  *)
(* In Haven it is not: a node past the batch has nothing, and the others   *)
(* have their polynomial at another place than their number, or zero if    *)
(* the node of that place is among the senders.                            *)
HeldSharesAreDealt ==
    \A i \in Holders \ byz :
      CASE Simple ->
             held[i][1].share = poly_eval(deal.poly, omegas[i])
        [] deal.algo = "Bingo" ->
             \A k \in Nodes :
               /\ held[i][k + 1].index = k
               /\ held[i][k + 1].share = poly_eval(lines[i].line, omegas[k])
        [] deal.algo = "Haven" ->
             held[i][1].share \in
               IF i + 1 = Size(omegas) THEN {Crashed}
               ELSE IF i >= deal.batch THEN {Empty}
               ELSE {0, poly_eval(deal.poly[i], omegas[i + 1])}

(* Any 2t + 1 shares of AvssSimpl rebuild what the dealer drew, in every   *)
(* order; and what the nodes of Bingo send are values of one polynomial,   *)
(* whether they had their line from the dealer or from the others.         *)
SecretComesBack ==
    secret # <<>> =>
      IF deal.algo = "AvssSimpl" THEN secret = <<deal.poly[0]>>
      ELSE secret[2] = poly_eval(lines[secret[1]].line, omegas[deal.n])

(* The assertion of line_manager fails for the rows of Byzantine nodes,    *)
(* and for no others: the proofs that col_manager interpolates hold at     *)
(* every node.                                                             *)
OnlyCorruptRowsFail ==
    \A i \in Nodes, j \in 0..Len(rows) - 1 : RowVerifies(i, j) = (j \notin byz)

(* What a dealer commits to passes the low degree test, at which           *)
(* wait_from_comm panics and AvssSimpl does not sign its share.            *)
DealersPassTheTest == tested # "failed"

(* What the low degree test always accepts has a degree below the          *)
(* threshold.                                                              *)
AcceptedMeansLowDegree ==
    deal.algo \in {"LightWeight", "HbAvss"} =>
      \A d \in 0..deal.n - 1 :
        LET comm == [i \in Nodes |-> Power(omegas[i], d)]
        IN  (\A g \in Drawn(DualSize(deal.n, Degree(deal))) :
               low_deg_test(omegas, deal.n, Threshold(deal), comm, g))
            => d < Threshold(deal)
=============================================================================
