---------------------------- MODULE Ledger_proof ----------------------------
(***************************************************************************)
(* Type correctness of Ledger; that the outlet's balance accounts for its  *)
(* invoices and payments, what was paid of an invoice for what was         *)
(* allocated to it, and the balance for what all the invoices still ask    *)
(* for; that no payment gives more than it has, and that there is one      *)
(* oldest-first allocation of it: for every set of payments, orders and    *)
(* requests and every amount.                                              *)
(***************************************************************************)
EXTENDS Ledger, FiniteSetTheorems, TLAPS

-----------------------------------------------------------------------------
(* Sums.                                                                   *)

\* What one place contributes to a sum.
LEMMA UnitsOfOne ==
  ASSUME NEW x, NEW n \in Nat
  PROVE  IsFiniteSet({x} \X (1..n)) /\ Cardinality({x} \X (1..n)) = n
<1>1. IsFiniteSet({x}) /\ Cardinality({x}) = 1
  BY FS_Singleton, Zenon
<1>2. IsFiniteSet(1..n) /\ Cardinality(1..n) = IF 1 > n THEN 0 ELSE n - 1 + 1
  BY FS_Interval
<1>3. IsFiniteSet({x} \X (1..n)) /\ Cardinality({x} \X (1..n)) = Cardinality({x}) * Cardinality(1..n)
  BY <1>1, <1>2, FS_Product
<1>4. QED
  BY <1>1, <1>2, <1>3

\* A sum is a number, whatever the values.
LEMMA UnitsFinite ==
  ASSUME NEW S, IsFiniteSet(S), NEW f, DOMAIN f = S
  PROVE  IsFiniteSet(Units(f)) /\ Total(f) \in Nat
<1>1. MaxAmount \in Int /\ IsFiniteSet(1..MaxAmount)
  BY LedgerAssumption, FS_Interval
<1>2. IsFiniteSet(S \X (1..MaxAmount))
  BY <1>1, FS_Product
<1>3. Units(f) \subseteq S \X (1..MaxAmount)
  BY DEF Units, Amounts
<1>4. IsFiniteSet(Units(f))
  BY <1>2, <1>3, FS_Subset
<1>5. QED
  BY <1>4, FS_CardinalityType DEF Total

LEMMA TotalIsNat ==
  ASSUME NEW S, IsFiniteSet(S), NEW f \in [S -> 0..MaxAmount]
  PROVE  IsFiniteSet(Units(f)) /\ Total(f) \in Nat
BY UnitsFinite

\* A sum without one of its places.
LEMMA TotalWithout ==
  ASSUME NEW S, IsFiniteSet(S), NEW f \in [S -> 0..MaxAmount], NEW x \in S
  PROVE  LET rest == {u \in (S \ {x}) \X Amounts : u[2] <= f[u[1]]}
         IN  Cardinality(rest) \in Nat /\ Total(f) = Cardinality(rest) + f[x]
<1> DEFINE rest == {u \in (S \ {x}) \X Amounts : u[2] <= f[u[1]]}
           own == {x} \X (1..f[x])
<1>1. MaxAmount \in Nat /\ f[x] \in 0..MaxAmount /\ f[x] \in Nat /\ DOMAIN f = S
  BY LedgerAssumption
<1>2. Units(f) = rest \cup own
  BY <1>1 DEF Units, Amounts
<1>3. rest \cap own = {}
  OBVIOUS
<1>4. IsFiniteSet(Units(f))
  BY TotalIsNat
<1>5. rest \subseteq Units(f)
  BY <1>2
<1>6. IsFiniteSet(own) /\ Cardinality(own) = f[x]
  BY <1>1, UnitsOfOne
<1> HIDE DEF rest, own
<1>7. IsFiniteSet(rest)
  BY <1>4, <1>5, FS_Subset
<1>8. Cardinality(rest) \in Nat /\ Cardinality(rest \cap own) = 0
  BY <1>3, <1>7, FS_CardinalityType, FS_EmptySet
<1>9. Cardinality(rest \cup own) = Cardinality(rest) + Cardinality(own) - Cardinality(rest \cap own)
  BY <1>6, <1>7, FS_Union
<1>10. Total(f) = Cardinality(rest) + f[x]
  BY <1>1, <1>2, <1>6, <1>8, <1>9 DEF Total
<1>11. QED
  BY <1>8, <1>10 DEF rest

\* A sum changes by as much as one of its places does.
LEMMA TotalChange ==
  ASSUME NEW S, IsFiniteSet(S), NEW f \in [S -> 0..MaxAmount], NEW g \in [S -> 0..MaxAmount],
         NEW x \in S, \A y \in S \ {x} : g[y] = f[y]
  PROVE  Total(g) - g[x] = Total(f) - f[x] /\ Total(f) >= f[x] /\ Total(f) \in Nat /\ Total(g) \in Nat
<1> DEFINE rest(h) == {u \in (S \ {x}) \X Amounts : u[2] <= h[u[1]]}
<1>1. Cardinality(rest(f)) \in Nat /\ Total(f) = Cardinality(rest(f)) + f[x]
  BY TotalWithout
<1>2. Cardinality(rest(g)) \in Nat /\ Total(g) = Cardinality(rest(g)) + g[x]
  BY TotalWithout
<1>3. rest(f) = rest(g)
  OBVIOUS
<1>4. f[x] \in Nat /\ g[x] \in Nat
  BY LedgerAssumption
<1> HIDE DEF rest
<1>5. QED
  BY <1>1, <1>2, <1>3, <1>4

\* A sum of nothing is nothing.
LEMMA TotalOfNothing ==
  ASSUME NEW S, NEW f \in [S -> {0}]
  PROVE  Total(f) = 0
<1>1. Units(f) = {}
  BY LedgerAssumption DEF Units, Amounts
<1>2. QED
  BY <1>1, FS_EmptySet DEF Total

\* The invoices are finitely many.
LEMMA Finite == IsFiniteSet(InvoiceIds) /\ IsFiniteSet(Payments) /\ MaxAmount \in Nat
BY LedgerAssumption, FS_Interval DEF InvoiceIds

\* A sum with one place that counts.
LEMMA TotalOfOne ==
  ASSUME NEW S, IsFiniteSet(S), NEW f \in [S -> 0..MaxAmount], NEW x \in S,
         \A y \in S \ {x} : f[y] = 0
  PROVE  Total(f) = f[x]
<1> DEFINE zero == [y \in S |-> 0]
<1>1. zero \in [S -> 0..MaxAmount] /\ zero \in [S -> {0}] /\ zero[x] = 0 /\ (\A y \in S \ {x} : zero[y] = 0)
  BY Finite
<1> HIDE DEF zero
<1>2. Total(zero) = 0
  BY <1>1, TotalOfNothing
<1>3. Total(f) - f[x] = Total(zero) - zero[x] /\ Total(f) \in Nat
  BY <1>1, TotalChange
<1>4. f[x] \in Nat
  BY Finite
<1>5. QED
  BY <1>1, <1>2, <1>3, <1>4

\* Counting g's units on top of f's counts those of their sum.
LEMMA TotalAdds ==
  ASSUME NEW S, IsFiniteSet(S), NEW f \in [S -> 0..MaxAmount], NEW g \in [S -> 0..MaxAmount],
         NEW h \in [S -> 0..MaxAmount], \A x \in S : h[x] = f[x] + g[x]
  PROVE  Total(h) = Total(f) + Total(g)
<1> DEFINE over == {u \in S \X Amounts : f[u[1]] < u[2] /\ u[2] <= h[u[1]]}
           lift == [v \in Units(g) |-> <<v[1], v[2] + f[v[1]]>>]
<1>0. MaxAmount \in Nat /\ \A x \in S : f[x] \in Nat /\ g[x] \in Nat /\ h[x] <= MaxAmount
  BY LedgerAssumption
<1>1. Units(h) = Units(f) \cup over /\ Units(f) \cap over = {}
  BY <1>0 DEF Units, Amounts
<1>2. IsFiniteSet(Units(f)) /\ IsFiniteSet(Units(g)) /\ IsFiniteSet(Units(h))
  BY TotalIsNat
<1>3. lift \in Bijection(Units(g), over)
  <2>1. \A v \in Units(g) : v[1] \in S /\ v[2] \in 1..MaxAmount /\ v[2] <= g[v[1]] /\ v = <<v[1], v[2]>>
    BY DEF Units, Amounts
  <2>2. ASSUME NEW v \in Units(g) PROVE lift[v] \in over
    <3>1. v[2] + f[v[1]] \in Amounts /\ f[v[1]] < v[2] + f[v[1]] /\ v[2] + f[v[1]] <= h[v[1]]
      BY <1>0, <2>1 DEF Amounts
    <3>2. QED
      BY <2>1, <3>1
  <2>3. ASSUME NEW v \in Units(g), NEW w \in Units(g), lift[v] = lift[w] PROVE v = w
    <3>1. v[1] = w[1] /\ v[2] + f[v[1]] = w[2] + f[w[1]]
      BY <2>3
    <3>2. v[2] = w[2]
      BY <1>0, <2>1, <3>1
    <3>3. QED
      BY <2>1, <3>1, <3>2
  <2>4. ASSUME NEW u \in over PROVE \E v \in Units(g) : lift[v] = u
    <3> DEFINE v == <<u[1], u[2] - f[u[1]]>>
    <3>1. u[1] \in S /\ u[2] \in 1..MaxAmount /\ f[u[1]] < u[2] /\ u[2] <= h[u[1]] /\ u = <<u[1], u[2]>>
      BY DEF Amounts
    <3>2. u[2] - f[u[1]] \in Amounts /\ u[2] - f[u[1]] <= g[u[1]] /\ u[2] - f[u[1]] + f[u[1]] = u[2]
      BY <1>0, <3>1 DEF Amounts
    <3>3. v \in Units(g)
      BY <3>1, <3>2 DEF Units
    <3>4. lift[v] = u
      BY <3>1, <3>2, <3>3
    <3>5. QED
      BY <3>3, <3>4
  <2>5. lift \in [Units(g) -> over]
    BY <2>2
  <2> HIDE DEF lift, over
  <2>6. QED
    BY <2>3, <2>4, <2>5 DEF Bijection, Injection, Surjection, IsInjective
<1>4. IsFiniteSet(over) /\ Cardinality(over) = Cardinality(Units(g))
  BY <1>2, <1>3, FS_Bijection DEF ExistsBijection
<1> HIDE DEF over
<1>5. Cardinality(Units(f) \cup over)
        = Cardinality(Units(f)) + Cardinality(over) - Cardinality(Units(f) \cap over)
  BY <1>2, <1>4, FS_Union
<1>6. Cardinality(Units(f)) \in Nat /\ Cardinality(over) \in Nat /\ Cardinality({}) = 0
  BY <1>2, <1>4, FS_CardinalityType, FS_EmptySet
<1>7. Cardinality(Units(h)) = Cardinality(Units(f) \cup over) /\ Cardinality(Units(f) \cap over) = 0
  BY <1>1, <1>6
<1>8. Cardinality(Units(h)) = Cardinality(Units(f)) + Cardinality(Units(g))
  BY <1>4, <1>5, <1>6, <1>7
<1>9. QED
  BY <1>8 DEF Total

\* What every place of f gains, or loses, by a function g, the sum does.
LEMMA TotalMoves ==
  ASSUME NEW S, IsFiniteSet(S), NEW f \in [S -> 0..MaxAmount], NEW g \in [S -> 0..MaxAmount],
         NEW h \in [S -> 0..MaxAmount], NEW k \in [S -> 0..MaxAmount],
         \A x \in S : f[x] + g[x] = h[x] + k[x],
         (\A x \in S : g[x] = 0) \/ (\A x \in S : k[x] = 0) \/ g = k
  PROVE  Total(f) + Total(g) = Total(h) + Total(k)
<1>1. \A x \in S : f[x] \in Nat /\ g[x] \in Nat /\ h[x] \in Nat /\ k[x] \in Nat
  BY LedgerAssumption
<1>2. Total(f) \in Nat /\ Total(g) \in Nat /\ Total(h) \in Nat /\ Total(k) \in Nat
  BY TotalIsNat
<1>3. CASE \A x \in S : g[x] = 0
  <2>1. Total(g) = 0
    BY <1>3, TotalOfNothing
  <2>2. \A x \in S : f[x] = h[x] + k[x]
    BY <1>1, <1>3
  <2>3. Total(f) = Total(h) + Total(k)
    BY <2>2, TotalAdds
  <2>4. QED
    BY <1>2, <2>1, <2>3
<1>4. CASE \A x \in S : k[x] = 0
  <2>1. Total(k) = 0
    BY <1>4, TotalOfNothing
  <2>2. \A x \in S : h[x] = f[x] + g[x]
    BY <1>1, <1>4
  <2>3. Total(h) = Total(f) + Total(g)
    BY <2>2, TotalAdds
  <2>4. QED
    BY <1>2, <2>1, <2>3
<1>5. CASE g = k
  <2>1. \A x \in S : f[x] = h[x]
    BY <1>1, <1>5
  <2>2. f = h
    BY <2>1
  <2>3. QED
    BY <1>5, <2>2
<1>6. QED
  BY <1>3, <1>4, <1>5

-----------------------------------------------------------------------------
(* Invoices and payments.                                                  *)

\* What an allocation gives an invoice, the invoice has left.
LEMMA Fits ==
  ASSUME TypeOK, NEW amount \in Amounts, NEW named \in InvoiceIds \cup {None}, NEW a \in Allocations,
         AllocatedNow(amount, named, a) \/ AllocatedLater(amount, named, a), NEW i \in InvoiceIds, a[i] # 0
  PROVE  invoice[i] # None /\ a[i] <= Remaining(i)
<1>0. a[i] \in 0..MaxAmount /\ a[i] > 0 /\ amount \in 1..MaxAmount /\ None \notin InvoiceIds
  BY LedgerAssumption DEF Allocations, Amounts, InvoiceIds
<1>1. a[i] <= Remaining(i)
  <2>1. CASE \A j \in InvoiceIds : a[j] <= Remaining(j)
    BY <2>1
  <2>2. CASE named # None /\ amount <= Remaining(named) /\ Single(named, amount, a)
    BY <1>0, <2>2 DEF Single
  <2>3. CASE named # None /\ Single(named, Smaller(amount, Remaining(named)), a)
    <3>1. i = named /\ a[i] = Smaller(amount, Remaining(named))
      BY <1>0, <2>3 DEF Single
    <3>2. Remaining(i) \in Int
      BY Finite DEF Remaining, TypeOK, InvoiceDocs
    <3>3. QED
      BY <1>0, <3>1, <3>2 DEF Smaller
  <2>4. CASE Fifo(amount, a)
    BY <1>0, <2>4 DEF Fifo
  <2>5. QED
    BY <2>1, <2>2, <2>3, <2>4 DEF AllocatedNow, AllocatedLater
<1>2. ASSUME invoice[i] = None PROVE FALSE
  <2>1. Remaining(i) = 0
    BY <1>2 DEF Remaining
  <2>2. QED
    BY <1>0, <1>1, <2>1, Finite
<1>3. QED
  BY <1>1, <1>2

\* What was paid of an invoice, once it is written.
LEMMA PaidIs ==
  ASSUME NEW inv \in InvoiceDocs, NEW paid \in Nat
  PROVE  /\ WithPaid(inv, paid) \in InvoiceDocs /\ WithPaid(inv, paid) # None
         /\ WithPaid(inv, paid).order = inv.order /\ WithPaid(inv, paid).total = inv.total
         /\ WithPaid(inv, paid).paid = paid /\ WithPaid(inv, paid).status = StatusFor(paid, inv.total)
<1>1. StatusFor(paid, inv.total) \in {"Unpaid", "Partial", "Paid"}
  BY DEF StatusFor
<1> DEFINE status == StatusFor(paid, inv.total)
<1>2. WithPaid(inv, paid) = [inv EXCEPT !.paid = paid, !.status = status]
  BY DEF WithPaid
<1>3. status \in {"Unpaid", "Partial", "Paid"} /\ status = StatusFor(paid, inv.total)
  BY <1>1
<1> HIDE DEF status
<1>4. WithPaid(inv, paid) = [order |-> inv.order, total |-> inv.total, paid |-> paid, status |-> status]
  BY <1>2 DEF InvoiceDocs
<1>5. QED
  BY <1>3, <1>4, DocumentAssumption DEF InvoiceDocs

\* Allocating pays what was allocated.
LEMMA Applies ==
  ASSUME TypeOK, NEW amount \in Amounts, NEW named \in InvoiceIds \cup {None}, NEW a \in Allocations,
         AllocatedNow(amount, named, a) \/ AllocatedLater(amount, named, a), Apply(a)
  PROVE  /\ invoice' \in [InvoiceIds -> InvoiceDocs \cup {None}]
         /\ \A i \in InvoiceIds :
               /\ invoice[i] = None => invoice'[i] = None /\ a[i] = 0
               /\ invoice[i] # None =>
                     /\ invoice'[i] # None /\ invoice'[i].order = invoice[i].order
                     /\ invoice'[i].total = invoice[i].total
                     /\ invoice'[i].paid = invoice[i].paid + a[i]
                     /\ a[i] = 0 => invoice'[i] = invoice[i]
                     /\ a[i] # 0 => /\ invoice'[i].paid <= invoice'[i].total
                                    /\ invoice'[i].status = StatusFor(invoice'[i].paid, invoice'[i].total)
<1> SUFFICES ASSUME NEW i \in InvoiceIds
             PROVE  /\ invoice'[i] \in InvoiceDocs \cup {None}
                    /\ invoice[i] = None => invoice'[i] = None /\ a[i] = 0
                    /\ invoice[i] # None =>
                          /\ invoice'[i] # None /\ invoice'[i].order = invoice[i].order
                          /\ invoice'[i].total = invoice[i].total
                          /\ invoice'[i].paid = invoice[i].paid + a[i]
                          /\ a[i] = 0 => invoice'[i] = invoice[i]
                          /\ a[i] # 0 => /\ invoice'[i].paid <= invoice'[i].total
                                         /\ invoice'[i].status = StatusFor(invoice'[i].paid, invoice'[i].total)
  BY DEF Apply
<1>1. invoice[i] \in InvoiceDocs \cup {None} /\ a[i] \in Nat
  BY Finite DEF TypeOK, Allocations
<1>2. CASE a[i] = 0
  <2>1. invoice'[i] = invoice[i]
    BY <1>2 DEF Apply
  <2>2. invoice[i] # None => invoice[i].paid + a[i] = invoice[i].paid
    BY <1>1, <1>2 DEF InvoiceDocs
  <2>3. QED
    BY <1>1, <1>2, <2>1, <2>2
<1>3. CASE a[i] # 0
  <2>1. invoice[i] # None /\ a[i] <= Remaining(i)
    BY <1>3, Fits
  <2>2. invoice[i] \in InvoiceDocs
    BY <1>1, <2>1
  <2>3. invoice'[i] = WithPaid(invoice[i], invoice[i].paid + a[i])
    BY <1>3 DEF Apply
  <2>4. invoice[i].paid \in Nat /\ invoice[i].total \in Nat /\ invoice[i].paid + a[i] \in Nat
    BY <1>1, <2>2, Finite DEF InvoiceDocs
  <2>5. invoice[i].paid + a[i] <= invoice[i].total
    BY <1>1, <2>1, <2>4 DEF Remaining
  <2>6. /\ WithPaid(invoice[i], invoice[i].paid + a[i]) \in InvoiceDocs
        /\ WithPaid(invoice[i], invoice[i].paid + a[i]) # None
        /\ WithPaid(invoice[i], invoice[i].paid + a[i]).order = invoice[i].order
        /\ WithPaid(invoice[i], invoice[i].paid + a[i]).total = invoice[i].total
        /\ WithPaid(invoice[i], invoice[i].paid + a[i]).paid = invoice[i].paid + a[i]
        /\ WithPaid(invoice[i], invoice[i].paid + a[i]).status
             = StatusFor(invoice[i].paid + a[i], invoice[i].total)
    BY <2>2, <2>4, PaidIs
  <2>7. QED
    BY <1>3, <2>1, <2>3, <2>5, <2>6
<1>4. QED
  BY <1>2, <1>3

\* Taking back leaves no invoice paid beyond its total.
LEMMA Unapplies ==
  ASSUME TypeOK, NEW a \in Allocations, Unapply(a)
  PROVE  /\ invoice' \in [InvoiceIds -> InvoiceDocs \cup {None}]
         /\ \A i \in InvoiceIds :
               /\ invoice[i] = None => invoice'[i] = None
               /\ a[i] = 0 => invoice'[i] = invoice[i]
               /\ invoice[i] # None =>
                     /\ invoice'[i] # None /\ invoice'[i].order = invoice[i].order
                     /\ invoice'[i].total = invoice[i].total
                     /\ a[i] # 0 => /\ invoice'[i].paid = Less(invoice[i].paid, a[i])
                                    /\ invoice'[i].status = StatusFor(invoice'[i].paid, invoice'[i].total)
<1> SUFFICES ASSUME NEW i \in InvoiceIds
             PROVE  /\ invoice'[i] \in InvoiceDocs \cup {None}
                    /\ invoice[i] = None => invoice'[i] = None
                    /\ a[i] = 0 => invoice'[i] = invoice[i]
                    /\ invoice[i] # None =>
                          /\ invoice'[i] # None /\ invoice'[i].order = invoice[i].order
                          /\ invoice'[i].total = invoice[i].total
                          /\ a[i] # 0 => /\ invoice'[i].paid = Less(invoice[i].paid, a[i])
                                         /\ invoice'[i].status = StatusFor(invoice'[i].paid, invoice'[i].total)
  BY DEF Unapply
<1>1. invoice[i] \in InvoiceDocs \cup {None} /\ a[i] \in Nat
  BY Finite DEF TypeOK, Allocations
<1>2. CASE a[i] = 0 \/ invoice[i] = None
  <2>1. invoice'[i] = invoice[i]
    BY <1>2 DEF Unapply
  <2>2. QED
    BY <1>1, <1>2, <2>1
<1>3. CASE a[i] # 0 /\ invoice[i] # None
  <2>1. invoice[i] \in InvoiceDocs
    BY <1>1, <1>3
  <2>2. invoice'[i] = WithPaid(invoice[i], Less(invoice[i].paid, a[i]))
    BY <1>3 DEF Unapply
  <2>3. Less(invoice[i].paid, a[i]) \in Nat
    BY <1>1, <2>1 DEF Less, InvoiceDocs
  <2>4. /\ WithPaid(invoice[i], Less(invoice[i].paid, a[i])) \in InvoiceDocs
        /\ WithPaid(invoice[i], Less(invoice[i].paid, a[i])) # None
        /\ WithPaid(invoice[i], Less(invoice[i].paid, a[i])).order = invoice[i].order
        /\ WithPaid(invoice[i], Less(invoice[i].paid, a[i])).total = invoice[i].total
        /\ WithPaid(invoice[i], Less(invoice[i].paid, a[i])).paid = Less(invoice[i].paid, a[i])
        /\ WithPaid(invoice[i], Less(invoice[i].paid, a[i])).status
             = StatusFor(Less(invoice[i].paid, a[i]), invoice[i].total)
    BY <2>1, <2>3, PaidIs
  <2>5. QED
    BY <1>3, <2>2, <2>4
<1>4. QED
  BY <1>2, <1>3

\* A payment that is recorded.
LEMMA NewIs ==
  ASSUME NEW amount \in Amounts, NEW status \in {"Pending", "Cleared", "Bounced"},
         NEW named \in InvoiceIds \cup {None}, NEW a \in Allocations, NEW reversal \in BOOLEAN
  PROVE  LET doc == [amount |-> amount, reversal |-> reversal, status |-> status, named |-> named, alloc |-> a]
         IN  doc \in PaymentDocs /\ doc # None
BY DocumentAssumption DEF PaymentDocs

\* Nothing allocated is an allocation, and so is what is taken back.
LEMMA TakenBackIs ==
  ASSUME NEW doc \in PaymentDocs
  PROVE  /\ Nothing \in Allocations /\ TakenBack(doc) \in Allocations
         /\ TakenBack(doc) # doc.alloc =>
               /\ doc.alloc = Nothing /\ doc.named \in InvoiceIds
               /\ \A i \in InvoiceIds \ {doc.named} : TakenBack(doc)[i] = 0
<1>1. /\ doc.amount \in 0..MaxAmount /\ doc.named \in InvoiceIds \cup {None} /\ doc.alloc \in Allocations
  BY Finite DEF PaymentDocs, Amounts
<1>2. Nothing \in Allocations
  BY Finite DEF Nothing, Allocations
<1>3. CASE doc.alloc # Nothing \/ doc.named = None
  BY <1>1, <1>2, <1>3 DEF TakenBack
<1>4. CASE ~(doc.alloc # Nothing \/ doc.named = None)
  <2>1. TakenBack(doc) = [i \in InvoiceIds |-> IF i = doc.named THEN doc.amount ELSE 0]
    BY <1>4 DEF TakenBack
  <2>2. QED
    BY <1>1, <1>2, <1>4, <2>1, Finite DEF Allocations
<1>5. QED
  BY <1>3, <1>4

\* Every step keeps the documents well formed.
LEMMA TypeStep ==
  ASSUME TypeOK, PostsDue, [Next]_vars
  PROVE  TypeOK'
<1>0. /\ balance \in Int
      /\ invoice \in [InvoiceIds -> InvoiceDocs \cup {None}]
      /\ payment \in [Payments -> PaymentDocs \cup {None}]
      /\ req \in [Requests -> {Idle} \cup SaveReq \cup PostReq]
      /\ unposted \in SUBSET InvoiceIds /\ wiped \in SUBSET InvoiceIds
  BY DEF TypeOK
<1>a. Amounts \subseteq Int
  BY LedgerAssumption DEF Amounts
<1>1. ASSUME NEW p \in Payments, CreateCleared(p) PROVE TypeOK'
  <2>1. PICK amount \in Amounts, named \in InvoiceIds \cup {None}, a \in Allocations :
          /\ AllocatedNow(amount, named, a) /\ Apply(a)
          /\ payment' = [payment EXCEPT ![p] = NewPayment(amount, "Cleared", named, a)]
          /\ balance' = balance - amount
    BY <1>1 DEF CreateCleared
  <2>2. invoice' \in [InvoiceIds -> InvoiceDocs \cup {None}]
    BY <2>1, Applies
  <2>3. NewPayment(amount, "Cleared", named, a) \in PaymentDocs
    BY NewIs DEF NewPayment
  <2>4. payment' \in [Payments -> PaymentDocs \cup {None}]
    BY <1>0, <2>1, <2>3
  <2>5. balance' \in Int
    BY <1>0, <1>a, <2>1
  <2>6. QED
    BY <1>0, <1>1, <2>2, <2>4, <2>5 DEF CreateCleared, TypeOK
<1>2. ASSUME NEW p \in Payments, CreatePending(p) PROVE TypeOK'
  <2>1. PICK amount \in Amounts, named \in InvoiceIds \cup {None} :
          payment' = [payment EXCEPT ![p] = NewPayment(amount, "Pending", named, Nothing)]
    BY <1>2 DEF CreatePending
  <2>2. Nothing \in Allocations
    BY Finite DEF Nothing, Allocations
  <2>3. NewPayment(amount, "Pending", named, Nothing) \in PaymentDocs
    BY <2>2, NewIs DEF NewPayment
  <2>4. payment' \in [Payments -> PaymentDocs \cup {None}]
    BY <1>0, <2>1, <2>3
  <2>5. QED
    BY <1>0, <1>2, <2>4 DEF CreatePending, TypeOK
<1>3. ASSUME NEW p \in Payments, Clear(p) PROVE TypeOK'
  <2>1. payment[p] \in PaymentDocs
    BY <1>0, <1>3 DEF Clear, Is
  <2>2. PICK a \in Allocations :
          /\ IF payment[p].alloc = Nothing
                THEN AllocatedLater(payment[p].amount, payment[p].named, a) /\ Apply(a)
                ELSE a = payment[p].alloc /\ UNCHANGED invoice
          /\ payment' = [payment EXCEPT ![p].status = "Cleared", ![p].alloc = a]
    BY <1>3 DEF Clear
  <2>3. payment[p].amount \in Amounts /\ payment[p].named \in InvoiceIds \cup {None}
    BY <2>1 DEF PaymentDocs
  <2>4. invoice' \in [InvoiceIds -> InvoiceDocs \cup {None}]
    BY <1>0, <2>2, <2>3, Applies
  <2>5. [payment[p] EXCEPT !.status = "Cleared", !.alloc = a] \in PaymentDocs
    BY <2>1 DEF PaymentDocs
  <2>6. payment' = [payment EXCEPT ![p] = [payment[p] EXCEPT !.status = "Cleared", !.alloc = a]]
    BY <1>0, <2>2
  <2>7. payment' \in [Payments -> PaymentDocs \cup {None}]
    BY <1>0, <2>5, <2>6
  <2>8. balance' \in Int
    BY <1>0, <1>a, <1>3, <2>3 DEF Clear
  <2>9. QED
    BY <1>0, <1>3, <2>4, <2>7, <2>8 DEF Clear, TypeOK
<1>4. ASSUME NEW p \in Payments, Bounce(p) PROVE TypeOK'
  <2>1. payment[p] \in PaymentDocs
    BY <1>0, <1>4 DEF Bounce, Is
  <2>2. payment[p].amount \in Amounts /\ payment[p].alloc \in Allocations
    BY <2>1 DEF PaymentDocs
  <2>3. invoice' \in [InvoiceIds -> InvoiceDocs \cup {None}]
    BY <1>4, <2>2, Unapplies DEF Bounce
  <2>4. [payment[p] EXCEPT !.status = "Bounced"] \in PaymentDocs
    BY <2>1 DEF PaymentDocs
  <2>5. payment' = [payment EXCEPT ![p] = [payment[p] EXCEPT !.status = "Bounced"]]
    BY <1>0, <1>4 DEF Bounce
  <2>6. payment' \in [Payments -> PaymentDocs \cup {None}]
    BY <1>0, <2>4, <2>5
  <2>7. balance' \in Int
    BY <1>0, <1>a, <1>4, <2>2 DEF Bounce
  <2>8. QED
    BY <1>0, <1>4, <2>3, <2>6, <2>7 DEF Bounce, TypeOK
<1>5. ASSUME NEW p \in Payments, Remove(p) PROVE TypeOK'
  <2>1. payment[p] \in PaymentDocs
    BY <1>0, <1>5 DEF Remove, Is
  <2>2. payment[p].alloc \in Allocations
    BY <2>1 DEF PaymentDocs
  <2>3. invoice' \in [InvoiceIds -> InvoiceDocs \cup {None}]
    BY <1>0, <1>5, <2>2, Unapplies DEF Remove
  <2>4. QED
    BY <1>0, <1>5, <2>3 DEF Remove, TypeOK
<1>6. ASSUME NEW p \in Payments, NEW q \in Payments, Reverse(p, q) PROVE TypeOK'
  <2>1. payment[p] \in PaymentDocs /\ p # q
    BY <1>0, <1>6 DEF Reverse, Is
  <2>2. payment[p].amount \in Amounts /\ payment[p].named \in InvoiceIds \cup {None}
    BY <2>1 DEF PaymentDocs
  <2>3. TakenBack(payment[p]) \in Allocations /\ Nothing \in Allocations
        /\ (TakenBack(payment[p]) # payment[p].alloc => payment[p].named \in InvoiceIds)
    BY <2>1, TakenBackIs
  <2>4. invoice' \in [InvoiceIds -> InvoiceDocs \cup {None}]
    BY <1>6, <2>3, Unapplies DEF Reverse
  <2> DEFINE row == [amount |-> payment[p].amount, reversal |-> TRUE, status |-> "Cleared",
                     named |-> payment[p].named, alloc |-> Nothing]
  <2>5. [payment[p] EXCEPT !.status = "Bounced"] \in PaymentDocs
    BY <2>1 DEF PaymentDocs
  <2>6. row \in PaymentDocs
    BY <2>2, <2>3, NewIs
  <2>7. payment' = [payment EXCEPT ![p] = [payment[p] EXCEPT !.status = "Bounced"], ![q] = row]
    BY <1>0, <1>6 DEF Reverse
  <2> HIDE DEF row
  <2>8. payment' \in [Payments -> PaymentDocs \cup {None}]
    BY <1>0, <2>5, <2>6, <2>7
  <2>9. balance' \in Int
    BY <1>0, <1>a, <1>6, <2>2 DEF Reverse
  <2>10. wiped' \in SUBSET InvoiceIds
    BY <1>0, <1>6, <2>3 DEF Reverse
  <2>11. QED
    BY <1>0, <1>6, <2>4, <2>8, <2>9, <2>10 DEF Reverse, TypeOK
<1>7. ASSUME NEW r \in Requests, NEW o \in Orders, InvoiceFind(r, o) PROVE TypeOK'
  <2>1. [op |-> "save", order |-> o] \in SaveReq
    BY DEF SaveReq
  <2>2. QED
    BY <1>0, <1>7, <2>1 DEF InvoiceFind, TypeOK
<1>8. ASSUME NEW r \in Requests, NEW i \in InvoiceIds, InvoiceSave(r, i) PROVE TypeOK'
  <2>1. req[r].order \in Orders
    BY <1>0, <1>8 DEF InvoiceSave, Idle, SaveReq, PostReq
  <2>2. Grand[req[r].order] \in 0..MaxAmount
    BY <2>1, LedgerAssumption
  <2>3. [order |-> req[r].order, total |-> Grand[req[r].order], paid |-> 0, status |-> "Unpaid"] \in InvoiceDocs
    BY <2>1, <2>2 DEF InvoiceDocs
  <2>4. [op |-> "post", id |-> i] \in PostReq
    BY DEF PostReq
  <2>5. invoice' \in [InvoiceIds -> InvoiceDocs \cup {None}]
    BY <1>0, <1>8, <2>3 DEF InvoiceSave
  <2>6. req' \in [Requests -> {Idle} \cup SaveReq \cup PostReq] /\ unposted' \in SUBSET InvoiceIds
    BY <1>0, <1>8, <2>4 DEF InvoiceSave
  <2>7. QED
    BY <1>0, <1>8, <2>5, <2>6 DEF InvoiceSave, TypeOK
<1>9. ASSUME NEW r \in Requests, InvoicePost(r) PROVE TypeOK'
  <2>1. req[r].id \in InvoiceIds
    BY <1>0, <1>9 DEF InvoicePost, Idle, SaveReq, PostReq
  <2>2. invoice[req[r].id] \in InvoiceDocs
    BY <1>0, <1>9, <2>1 DEF PostsDue, InvoicePost
  <2>3. balance' \in Int
    BY <1>0, <1>9, <2>2, Finite DEF InvoicePost, InvoiceDocs
  <2>4. QED
    BY <1>0, <1>9, <2>3 DEF InvoicePost, TypeOK
<1>10. ASSUME NEW r \in Requests, Abandon(r) PROVE TypeOK'
  BY <1>0, <1>10 DEF Abandon, TypeOK
<1>11. CASE UNCHANGED vars
  BY <1>0, <1>11 DEF vars, TypeOK
<1>12. QED
  BY <1>1, <1>2, <1>3, <1>4, <1>5, <1>6, <1>7, <1>8, <1>9, <1>10, <1>11 DEF Next

\* What a step does to the payments and the invoices.
LEMMA DocStep ==
  ASSUME TypeOK, PostsDue, [Next]_vars
  PROVE  \/ \E p \in Payments : CreateCleared(p) \/ CreatePending(p) \/ Clear(p) \/ Bounce(p) \/ Remove(p)
         \/ \E p \in Payments, q \in Payments : Reverse(p, q)
         \/ \E r \in Requests, i \in InvoiceIds : InvoiceSave(r, i)
         \/ UNCHANGED <<invoice, payment, wiped>>
<1>1. CASE UNCHANGED vars
  BY <1>1 DEF vars
<1>2. ASSUME NEW r \in Requests, (\E o \in Orders : InvoiceFind(r, o)) \/ InvoicePost(r) \/ Abandon(r)
      PROVE  UNCHANGED <<invoice, payment, wiped>>
  BY <1>2 DEF InvoiceFind, InvoicePost, Abandon
<1>3. CASE Next
  BY <1>2, <1>3 DEF Next
<1>4. QED
  BY <1>1, <1>3

\* The invoices that a step of a payment leaves: as many, of the same totals,
\* none of them paid beyond its total.
LEMMA InvoiceKept ==
  ASSUME TypeOK, NEW p \in Payments, NEW q \in Payments,
         CreateCleared(p) \/ CreatePending(p) \/ Clear(p) \/ Bounce(p) \/ Remove(p) \/ Reverse(p, q)
  PROVE  \A i \in InvoiceIds :
            /\ invoice[i] = None <=> invoice'[i] = None
            /\ invoice[i] # None => invoice'[i].total = invoice[i].total
            /\ \/ invoice'[i] = invoice[i]
               \/ /\ invoice[i] # None /\ invoice[i] \in InvoiceDocs
                  /\ invoice'[i].paid <= invoice'[i].total \/ invoice'[i].paid <= invoice[i].paid
                  /\ invoice'[i].status = StatusFor(invoice'[i].paid, invoice'[i].total)
<1> SUFFICES ASSUME NEW i \in InvoiceIds
             PROVE  /\ invoice[i] = None <=> invoice'[i] = None
                    /\ invoice[i] # None => invoice'[i].total = invoice[i].total
                    /\ \/ invoice'[i] = invoice[i]
                       \/ /\ invoice[i] # None /\ invoice[i] \in InvoiceDocs
                          /\ invoice'[i].paid <= invoice'[i].total \/ invoice'[i].paid <= invoice[i].paid
                          /\ invoice'[i].status = StatusFor(invoice'[i].paid, invoice'[i].total)
  OBVIOUS
<1>0. invoice[i] \in InvoiceDocs \cup {None} /\ payment[p] \in PaymentDocs \cup {None}
  BY DEF TypeOK
<1>1. ASSUME NEW amount \in Amounts, NEW named \in InvoiceIds \cup {None}, NEW a \in Allocations,
             AllocatedNow(amount, named, a) \/ AllocatedLater(amount, named, a), Apply(a)
      PROVE  /\ invoice[i] = None <=> invoice'[i] = None
             /\ invoice[i] # None => invoice'[i].total = invoice[i].total
             /\ \/ invoice'[i] = invoice[i]
                \/ /\ invoice[i] # None
                   /\ invoice'[i].paid <= invoice'[i].total
                   /\ invoice'[i].status = StatusFor(invoice'[i].paid, invoice'[i].total)
  BY <1>1, Applies
<1>2. ASSUME NEW a \in Allocations, Unapply(a)
      PROVE  /\ invoice[i] = None <=> invoice'[i] = None
             /\ invoice[i] # None => invoice'[i].total = invoice[i].total
             /\ \/ invoice'[i] = invoice[i]
                \/ /\ invoice[i] # None
                   /\ invoice'[i].paid <= invoice[i].paid
                   /\ invoice'[i].status = StatusFor(invoice'[i].paid, invoice'[i].total)
  <2>1. /\ invoice[i] = None => invoice'[i] = None
        /\ a[i] = 0 => invoice'[i] = invoice[i]
        /\ invoice[i] # None =>
              /\ invoice'[i] # None /\ invoice'[i].order = invoice[i].order
              /\ invoice'[i].total = invoice[i].total
              /\ a[i] # 0 => /\ invoice'[i].paid = Less(invoice[i].paid, a[i])
                             /\ invoice'[i].status = StatusFor(invoice'[i].paid, invoice'[i].total)
    BY <1>2, Unapplies
  <2>2. invoice[i] # None => Less(invoice[i].paid, a[i]) <= invoice[i].paid
    BY <1>0, Finite DEF Less, InvoiceDocs, Allocations
  <2>3. QED
    BY <2>1, <2>2
<1>3. CASE CreateCleared(p)
  BY <1>0, <1>1, <1>3 DEF CreateCleared
<1>4. CASE CreatePending(p)
  BY <1>0, <1>4 DEF CreatePending
<1>5. CASE Clear(p)
  <2>1. payment[p].amount \in Amounts /\ payment[p].named \in InvoiceIds \cup {None}
    BY <1>0, <1>5 DEF Clear, Is, PaymentDocs
  <2>2. invoice' = invoice
        \/ (\E a \in Allocations : AllocatedLater(payment[p].amount, payment[p].named, a) /\ Apply(a))
    BY <1>5 DEF Clear
  <2>3. QED
    BY <1>0, <1>1, <2>1, <2>2
<1>6. CASE Bounce(p) \/ Remove(p) \/ Reverse(p, q)
  <2>1. payment[p] \in PaymentDocs
    BY <1>0, <1>6 DEF Bounce, Remove, Reverse, Is
  <2>2. payment[p].alloc \in Allocations /\ TakenBack(payment[p]) \in Allocations
    BY <2>1, TakenBackIs DEF PaymentDocs
  <2>3. invoice' = invoice \/ Unapply(payment[p].alloc) \/ Unapply(TakenBack(payment[p]))
    BY <1>6 DEF Bounce, Remove, Reverse
  <2>4. QED
    BY <1>0, <1>2, <2>2, <2>3
<1>7. QED
  BY <1>3, <1>4, <1>5, <1>6

\* No step pays an invoice beyond its total or leaves its status behind.
LEMMA AgreesStep ==
  ASSUME TypeOK, PostsDue, InvoiceAgrees, [Next]_vars
  PROVE  InvoiceAgrees'
<1>0. /\ invoice \in [InvoiceIds -> InvoiceDocs \cup {None}]
      /\ invoice' \in [InvoiceIds -> InvoiceDocs \cup {None}]
      /\ req \in [Requests -> {Idle} \cup SaveReq \cup PostReq]
  BY TypeStep DEF TypeOK
<1>1. ASSUME NEW p \in Payments, NEW q \in Payments,
             CreateCleared(p) \/ CreatePending(p) \/ Clear(p) \/ Bounce(p) \/ Remove(p) \/ Reverse(p, q)
      PROVE  InvoiceAgrees'
  <2> SUFFICES ASSUME NEW i \in InvoiceIds, invoice'[i] # None
               PROVE  /\ invoice'[i].paid <= invoice'[i].total
                      /\ invoice'[i].total > 0
                            => invoice'[i].status = StatusFor(invoice'[i].paid, invoice'[i].total)
    BY DEF InvoiceAgrees
  <2>1. invoice[i] # None /\ invoice'[i].total = invoice[i].total
    BY <1>1, InvoiceKept
  <2>2. /\ invoice[i].paid <= invoice[i].total
        /\ invoice[i].total > 0 => invoice[i].status = StatusFor(invoice[i].paid, invoice[i].total)
    BY <2>1 DEF InvoiceAgrees
  <2>3. /\ invoice[i].paid \in Nat /\ invoice'[i].paid \in Nat
        /\ invoice[i].total \in Nat /\ invoice'[i].total \in Nat
    BY <1>0, <2>1, Finite DEF InvoiceDocs
  <2>4. CASE invoice'[i] = invoice[i]
    BY <2>2, <2>4
  <2>5. CASE /\ invoice'[i].paid <= invoice'[i].total \/ invoice'[i].paid <= invoice[i].paid
             /\ invoice'[i].status = StatusFor(invoice'[i].paid, invoice'[i].total)
    BY <2>1, <2>2, <2>3, <2>5
  <2>6. QED
    BY <1>1, <2>4, <2>5, InvoiceKept
<1>2. ASSUME NEW r \in Requests, NEW i \in InvoiceIds, InvoiceSave(r, i) PROVE InvoiceAgrees'
  <2>1. Grand[req[r].order] \in 0..MaxAmount
    BY <1>0, <1>2, LedgerAssumption DEF InvoiceSave, Idle, SaveReq, PostReq
  <2>2. invoice' = [invoice EXCEPT ![i] =
          [order |-> req[r].order, total |-> Grand[req[r].order], paid |-> 0, status |-> "Unpaid"]]
    BY <1>2 DEF InvoiceSave
  <2>3. 0 <= Grand[req[r].order] /\ (Grand[req[r].order] > 0 => "Unpaid" = StatusFor(0, Grand[req[r].order]))
    BY <2>1, Finite DEF StatusFor
  <2>4. QED
    BY <1>0, <2>2, <2>3 DEF InvoiceAgrees
<1>3. CASE UNCHANGED <<invoice, payment, wiped>>
  BY <1>3 DEF InvoiceAgrees
<1>4. QED
  BY <1>1, <1>2, <1>3, DocStep

\* A posting that is due stays due until it is made, once.
LEMMA PostsStep ==
  ASSUME TypeOK, PostsDue, [Next]_vars
  PROVE  PostsDue'
<1>0. /\ req \in [Requests -> {Idle} \cup SaveReq \cup PostReq]
      /\ invoice \in [InvoiceIds -> InvoiceDocs \cup {None}]
      /\ unposted \in SUBSET InvoiceIds
  BY DEF TypeOK
<1>a. \A r \in Requests : req[r].op = "post" => req[r].id \in InvoiceIds
  BY <1>0 DEF Idle, SaveReq, PostReq
<1>1. ASSUME NEW p \in Payments, NEW q \in Payments,
             CreateCleared(p) \/ CreatePending(p) \/ Clear(p) \/ Bounce(p) \/ Remove(p) \/ Reverse(p, q)
      PROVE  PostsDue'
  <2>1. req' = req /\ unposted' = unposted
    BY <1>1 DEF CreateCleared, CreatePending, Clear, Bounce, Remove, Reverse
  <2>2. \A i \in InvoiceIds : invoice[i] = None <=> invoice'[i] = None
    BY <1>1, InvoiceKept
  <2>3. QED
    BY <1>a, <2>1, <2>2 DEF PostsDue
<1>2. ASSUME NEW r \in Requests, NEW o \in Orders, InvoiceFind(r, o) PROVE PostsDue'
  BY <1>0, <1>2 DEF InvoiceFind, PostsDue
<1>3. ASSUME NEW r \in Requests, NEW i \in InvoiceIds, InvoiceSave(r, i) PROVE PostsDue'
  <2>1. /\ invoice[i] = None /\ unposted' = unposted \cup {i}
        /\ req' = [req EXCEPT ![r] = [op |-> "post", id |-> i]]
        /\ invoice' = [invoice EXCEPT ![i] =
             [order |-> req[r].order, total |-> Grand[req[r].order], paid |-> 0, status |-> "Unpaid"]]
    BY <1>3 DEF InvoiceSave
  <2>2. \A q \in Requests : req[q].op = "post" => req[q].id # i
    BY <2>1 DEF PostsDue
  <2>3. \A q \in Requests \ {r} : req'[q] = req[q]
    BY <1>0, <2>1
  <2>4. req'[r].op = "post" /\ req'[r].id = i
    BY <1>0, <2>1
  <2>5. invoice'[i] # None
    <3>1. req[r].order \in Orders
      BY <1>0, <1>3 DEF InvoiceSave, Idle, SaveReq, PostReq
    <3>2. [order |-> req[r].order, total |-> Grand[req[r].order], paid |-> 0, status |-> "Unpaid"] \in InvoiceDocs
      BY <3>1, LedgerAssumption DEF InvoiceDocs
    <3>3. QED
      BY <1>0, <2>1, <3>2, DocumentAssumption
  <2>6. QED
    BY <1>0, <1>a, <2>1, <2>2, <2>3, <2>4, <2>5 DEF PostsDue
<1>4. ASSUME NEW r \in Requests, InvoicePost(r) PROVE PostsDue'
  BY <1>0, <1>a, <1>4 DEF InvoicePost, PostsDue, Idle
<1>5. ASSUME NEW r \in Requests, Abandon(r) PROVE PostsDue'
  BY <1>0, <1>5 DEF Abandon, PostsDue, Idle
<1>6. CASE UNCHANGED vars
  BY <1>6 DEF vars, PostsDue
<1>7. QED
  BY <1>1, <1>2, <1>3, <1>4, <1>5, <1>6 DEF Next

-----------------------------------------------------------------------------
(* What was paid, and what is owed.                                        *)

\* The sums of the two properties are over functions into amounts.
LEMMA SumsTyped ==
  ASSUME TypeOK
  PROVE  /\ Invoiced \in [InvoiceIds -> 0..MaxAmount] /\ Missing \in [InvoiceIds -> 0..MaxAmount]
         /\ Settled \in [Payments -> 0..MaxAmount]
         /\ \A i \in InvoiceIds : Applied(i) \in [Payments -> 0..MaxAmount]
<1>0. /\ \A j \in InvoiceIds : invoice[j] # None => invoice[j].total \in 0..MaxAmount
      /\ \A p \in Payments : payment[p] # None =>
            /\ payment[p].amount \in 0..MaxAmount
            /\ \A i \in InvoiceIds : payment[p].alloc[i] \in 0..MaxAmount
      /\ 0 \in 0..MaxAmount
  BY Finite DEF TypeOK, InvoiceDocs, PaymentDocs, Amounts, Allocations
<1>1. Invoiced \in [InvoiceIds -> 0..MaxAmount]
  BY <1>0 DEF Invoiced
<1>2. Missing \in [InvoiceIds -> 0..MaxAmount]
  BY <1>0, <1>1 DEF Missing
<1>3. Settled \in [Payments -> 0..MaxAmount]
  BY <1>0 DEF Settled, Is
<1>4. \A i \in InvoiceIds : Applied(i) \in [Payments -> 0..MaxAmount]
  BY <1>0 DEF Applied
<1>5. QED
  BY <1>1, <1>2, <1>3, <1>4

\* So are they after a step.
LEMMA SumsTypedNext ==
  ASSUME TypeOK'
  PROVE  /\ Invoiced' \in [InvoiceIds -> 0..MaxAmount] /\ Missing' \in [InvoiceIds -> 0..MaxAmount]
         /\ Settled' \in [Payments -> 0..MaxAmount]
         /\ \A i \in InvoiceIds : Applied(i)' \in [Payments -> 0..MaxAmount]
<1>0. /\ \A j \in InvoiceIds : invoice'[j] # None => invoice'[j].total \in 0..MaxAmount
      /\ \A p \in Payments : payment'[p] # None =>
            /\ payment'[p].amount \in 0..MaxAmount
            /\ \A i \in InvoiceIds : payment'[p].alloc[i] \in 0..MaxAmount
      /\ 0 \in 0..MaxAmount
  BY Finite DEF TypeOK, InvoiceDocs, PaymentDocs, Amounts, Allocations
<1>1. Invoiced' \in [InvoiceIds -> 0..MaxAmount]
  BY <1>0 DEF Invoiced
<1>2. Missing' \in [InvoiceIds -> 0..MaxAmount]
  BY <1>0, <1>1 DEF Missing
<1>3. Settled' \in [Payments -> 0..MaxAmount]
  BY <1>0 DEF Settled, Is
<1>4. \A i \in InvoiceIds : Applied(i)' \in [Payments -> 0..MaxAmount]
  BY <1>0 DEF Applied
<1>5. QED
  BY <1>1, <1>2, <1>3, <1>4

\* What a step makes of one payment: the amount of it that settles, and what
\* it allocates.
LEMMA PaymentStep ==
  ASSUME TypeOK, NEW p \in Payments,
         CreateCleared(p) \/ CreatePending(p) \/ Clear(p) \/ Bounce(p) \/ Remove(p)
  PROVE  /\ \A x \in Payments \ {p} : payment'[x] = payment[x]
         /\ balance' - balance = Settled[p] - Settled'[p]
<1>0. /\ balance \in Int /\ payment \in [Payments -> PaymentDocs \cup {None}]
      /\ \A amount \in Amounts : amount \in Int
  BY LedgerAssumption DEF TypeOK, Amounts
<1>1. ASSUME NEW doc \in PaymentDocs, payment' = [payment EXCEPT ![p] = doc]
      PROVE  /\ \A x \in Payments \ {p} : payment'[x] = payment[x]
             /\ payment'[p] = doc /\ doc # None
  BY <1>0, <1>1, DocumentAssumption
<1>2. CASE CreateCleared(p)
  <2>1. PICK amount \in Amounts, named \in InvoiceIds \cup {None}, a \in Allocations :
          /\ payment' = [payment EXCEPT ![p] = NewPayment(amount, "Cleared", named, a)]
          /\ balance' = balance - amount
    BY <1>2 DEF CreateCleared
  <2>2. NewPayment(amount, "Cleared", named, a) \in PaymentDocs
    BY NewIs DEF NewPayment
  <2>3. Settled[p] = 0
    BY <1>2 DEF CreateCleared, Settled, Is
  <2>4. Settled'[p] = amount
    <3>1. payment'[p] = NewPayment(amount, "Cleared", named, a) /\ payment'[p] # None
      BY <1>1, <2>1, <2>2
    <3>2. payment'[p].status = "Cleared" /\ payment'[p].amount = amount /\ payment'[p].reversal = FALSE
      BY <3>1 DEF NewPayment
    <3>3. QED
      BY <3>1, <3>2 DEF Settled, Is
  <2>5. QED
    BY <1>0, <1>1, <2>1, <2>2, <2>3, <2>4
<1>3. CASE CreatePending(p)
  <2>1. PICK amount \in Amounts, named \in InvoiceIds \cup {None} :
          payment' = [payment EXCEPT ![p] = NewPayment(amount, "Pending", named, Nothing)]
    BY <1>3 DEF CreatePending
  <2>2. NewPayment(amount, "Pending", named, Nothing) \in PaymentDocs
    <3>1. Nothing \in Allocations
      BY Finite DEF Nothing, Allocations
    <3>2. QED
      BY <3>1, NewIs DEF NewPayment
  <2>3. Settled[p] = 0
    BY <1>3 DEF CreatePending, Settled, Is
  <2>4. Settled'[p] = 0
    <3>1. payment'[p] = NewPayment(amount, "Pending", named, Nothing) /\ payment'[p] # None
      BY <1>1, <2>1, <2>2
    <3>2. payment'[p].status = "Pending" /\ payment'[p].amount = amount /\ payment'[p].reversal = FALSE
      BY <3>1 DEF NewPayment
    <3>3. QED
      BY <3>1, <3>2 DEF Settled, Is
  <2>5. balance' = balance
    BY <1>3 DEF CreatePending
  <2>6. QED
    BY <1>0, <1>1, <2>1, <2>2, <2>3, <2>4, <2>5
<1>4. CASE Clear(p)
  <2>1. payment[p] \in PaymentDocs /\ payment[p].status = "Pending" /\ ~payment[p].reversal
    BY <1>0, <1>4 DEF Clear, Is
  <2>2. PICK a \in Allocations : payment' = [payment EXCEPT ![p].status = "Cleared", ![p].alloc = a]
    BY <1>4 DEF Clear
  <2>3. payment' = [payment EXCEPT ![p] = [payment[p] EXCEPT !.status = "Cleared", !.alloc = a]]
    BY <1>0, <2>2
  <2>4. [payment[p] EXCEPT !.status = "Cleared", !.alloc = a] \in PaymentDocs
    BY <2>1 DEF PaymentDocs
  <2>5. payment'[p] = [payment[p] EXCEPT !.status = "Cleared", !.alloc = a] /\ payment'[p] # None
    BY <1>1, <2>3, <2>4
  <2>6. /\ payment'[p].status = "Cleared" /\ payment'[p].amount = payment[p].amount
        /\ payment'[p].reversal = payment[p].reversal
    BY <2>1, <2>5 DEF PaymentDocs
  <2>7. Settled[p] = 0
    BY <2>1 DEF Settled, Is
  <2>8. Settled'[p] = payment[p].amount
    <3>1. ~payment'[p].reversal
      BY <2>1, <2>6, Zenon
    <3>2. QED
      BY <2>5, <2>6, <3>1 DEF Settled, Is
  <2>9. balance' = balance - payment[p].amount /\ payment[p].amount \in Amounts
    BY <1>4, <2>1 DEF Clear, PaymentDocs
  <2>10. QED
    BY <1>0, <1>1, <2>3, <2>4, <2>7, <2>8, <2>9
<1>5. CASE Bounce(p)
  <2>1. payment[p] \in PaymentDocs /\ ~payment[p].reversal
    BY <1>0, <1>5 DEF Bounce, Is
  <2>2. payment' = [payment EXCEPT ![p] = [payment[p] EXCEPT !.status = "Bounced"]]
    BY <1>0, <1>5 DEF Bounce
  <2>3. [payment[p] EXCEPT !.status = "Bounced"] \in PaymentDocs
    BY <2>1 DEF PaymentDocs
  <2>4. payment'[p].status = "Bounced"
    BY <1>1, <2>1, <2>2, <2>3 DEF PaymentDocs
  <2>5. Settled'[p] = 0
    BY <2>4 DEF Settled, Is
  <2>6. Settled[p] = IF payment[p].status = "Cleared" THEN payment[p].amount ELSE 0
    BY <1>0, <2>1, DocumentAssumption DEF Settled, Is
  <2>7. balance' = (IF payment[p].status = "Cleared" THEN balance + payment[p].amount ELSE balance)
        /\ payment[p].amount \in Amounts
    BY <1>5, <2>1 DEF Bounce, PaymentDocs
  <2>8. QED
    BY <1>0, <1>1, <2>2, <2>3, <2>5, <2>6, <2>7
<1>6. CASE Remove(p)
  <2>1. Settled[p] = 0
    BY <1>6 DEF Remove, Settled, Is
  <2>2. payment'[p] = None /\ (\A x \in Payments \ {p} : payment'[x] = payment[x]) /\ balance' = balance
    BY <1>0, <1>6 DEF Remove
  <2>3. Settled'[p] = 0
    BY <2>2 DEF Settled, Is
  <2>4. QED
    BY <1>0, <2>1, <2>2, <2>3
<1>7. QED
  BY <1>2, <1>3, <1>4, <1>5, <1>6

\* What a reversal makes of its two rows.
LEMMA ReverseStep ==
  ASSUME TypeOK, NEW p \in Payments, NEW q \in Payments, Reverse(p, q)
  PROVE  /\ p # q /\ payment[p] \in PaymentDocs /\ payment[p].status = "Cleared" /\ ~payment[p].reversal
         /\ payment[q] = None
         /\ \A x \in Payments \ {p, q} : payment'[x] = payment[x]
         /\ payment'[p] # None /\ payment'[p].status = "Bounced" /\ payment'[p].alloc = payment[p].alloc
         /\ payment'[q] # None /\ payment'[q].reversal = TRUE /\ payment'[q].alloc = Nothing
<1>0. payment \in [Payments -> PaymentDocs \cup {None}]
  BY DEF TypeOK
<1>1. p # q /\ payment[p] \in PaymentDocs /\ payment[p].status = "Cleared" /\ ~payment[p].reversal
      /\ payment[q] = None
  BY <1>0 DEF Reverse, Is
<1> DEFINE row == [amount |-> payment[p].amount, reversal |-> TRUE, status |-> "Cleared",
                   named |-> payment[p].named, alloc |-> Nothing]
<1>2. payment' = [payment EXCEPT ![p] = [payment[p] EXCEPT !.status = "Bounced"], ![q] = row]
  BY <1>0 DEF Reverse
<1>3. [payment[p] EXCEPT !.status = "Bounced"] \in PaymentDocs
  BY <1>1 DEF PaymentDocs
<1>4. row \in PaymentDocs /\ row.reversal = TRUE /\ row.alloc = Nothing
  <2>1. payment[p].amount \in Amounts /\ payment[p].named \in InvoiceIds \cup {None} /\ Nothing \in Allocations
    BY <1>1, TakenBackIs DEF PaymentDocs
  <2>2. row \in PaymentDocs
    BY <2>1, NewIs
  <2>3. row.reversal = TRUE /\ row.alloc = Nothing
    OBVIOUS
  <2>4. QED
    BY <2>2, <2>3
<1> HIDE DEF row
<1>5. payment'[p] = [payment[p] EXCEPT !.status = "Bounced"] /\ payment'[q] = row
      /\ \A x \in Payments \ {p, q} : payment'[x] = payment[x]
  BY <1>0, <1>1, <1>2
<1>6. payment'[p].status = "Bounced" /\ payment'[p].alloc = payment[p].alloc /\ payment'[p] # None
  BY <1>1, <1>3, <1>5, DocumentAssumption DEF PaymentDocs
<1>7. payment'[q] # None /\ payment'[q].reversal = TRUE /\ payment'[q].alloc = Nothing
  BY <1>4, <1>5, DocumentAssumption
<1>8. QED
  BY <1>1, <1>5, <1>6, <1>7

\* The balance moves by what the step adds to the sums it accounts for.
LEMMA BalanceStep ==
  ASSUME TypeOK, PostsDue, BalanceAccounts, [Next]_vars
  PROVE  BalanceAccounts'
<1>0. /\ TypeOK' /\ balance \in Int
      /\ invoice \in [InvoiceIds -> InvoiceDocs \cup {None}]
      /\ req \in [Requests -> {Idle} \cup SaveReq \cup PostReq]
  BY TypeStep DEF TypeOK
<1>t. /\ Invoiced \in [InvoiceIds -> 0..MaxAmount] /\ Missing \in [InvoiceIds -> 0..MaxAmount]
      /\ Invoiced' \in [InvoiceIds -> 0..MaxAmount] /\ Missing' \in [InvoiceIds -> 0..MaxAmount]
      /\ Settled \in [Payments -> 0..MaxAmount] /\ Settled' \in [Payments -> 0..MaxAmount]
  BY <1>0, SumsTyped, SumsTypedNext
<1>n. Total(Invoiced) \in Nat /\ Total(Missing) \in Nat /\ Total(Settled) \in Nat
  BY <1>t, Finite, TotalIsNat
<1>b. balance = Total(Invoiced) - Total(Missing) - Total(Settled)
  BY DEF BalanceAccounts
<1>1. ASSUME NEW p \in Payments, \A x \in Payments \ {p} : Settled'[x] = Settled[x],
             balance' - balance = Settled[p] - Settled'[p], balance' \in Int,
             Invoiced' = Invoiced, Missing' = Missing
      PROVE  BalanceAccounts'
  <2>1. Total(Settled') - Settled'[p] = Total(Settled) - Settled[p] /\ Total(Settled') \in Nat
    BY <1>t, <1>1, Finite, TotalChange
  <2>2. Settled[p] \in Nat /\ Settled'[p] \in Nat
    BY <1>t, Finite
  <2>3. balance' = Total(Invoiced') - Total(Missing') - Total(Settled')
    BY <1>0, <1>n, <1>b, <1>1, <2>1, <2>2
  <2>4. QED
    BY <2>3 DEF BalanceAccounts
<1>2. ASSUME NEW p \in Payments, NEW q \in Payments,
             CreateCleared(p) \/ CreatePending(p) \/ Clear(p) \/ Bounce(p) \/ Remove(p) \/ Reverse(p, q)
      PROVE  Invoiced' = Invoiced /\ Missing' = Missing /\ balance' \in Int
  <2>1. \A i \in InvoiceIds :
           /\ invoice[i] = None <=> invoice'[i] = None
           /\ invoice[i] # None => invoice'[i].total = invoice[i].total
    BY <1>2, InvoiceKept
  <2>2. unposted' = unposted
    BY <1>2 DEF CreateCleared, CreatePending, Clear, Bounce, Remove, Reverse
  <2>3. Invoiced' = Invoiced
    BY <2>1 DEF Invoiced
  <2>4. Missing' = Missing
    BY <2>2, <2>3 DEF Missing
  <2>5. QED
    BY <1>0, <2>3, <2>4 DEF TypeOK
<1>3. ASSUME NEW p \in Payments, CreateCleared(p) \/ CreatePending(p) \/ Clear(p) \/ Bounce(p) \/ Remove(p)
      PROVE  BalanceAccounts'
  <2>1. /\ \A x \in Payments \ {p} : payment'[x] = payment[x]
        /\ balance' - balance = Settled[p] - Settled'[p]
    BY <1>3, PaymentStep
  <2>2. \A x \in Payments \ {p} : Settled'[x] = Settled[x]
    BY <2>1 DEF Settled, Is
  <2>3. QED
    BY <1>1, <1>2, <1>3, <2>1, <2>2
<1>4. ASSUME NEW p \in Payments, NEW q \in Payments, Reverse(p, q) PROVE BalanceAccounts'
  <2>1. /\ p # q /\ payment[p] \in PaymentDocs /\ payment[p].status = "Cleared" /\ ~payment[p].reversal
        /\ payment[q] = None
        /\ \A x \in Payments \ {p, q} : payment'[x] = payment[x]
        /\ payment'[p] # None /\ payment'[p].status = "Bounced"
        /\ payment'[q] # None /\ payment'[q].reversal = TRUE
    BY <1>4, ReverseStep
  <2>2. Settled[q] = 0 /\ Settled'[q] = 0
    BY <2>1 DEF Settled, Is
  <2>3. Settled'[p] = 0
    BY <2>1 DEF Settled, Is
  <2>4. Settled[p] = payment[p].amount
    BY <2>1, DocumentAssumption DEF Settled, Is
  <2>5. balance' = balance + payment[p].amount /\ payment[p].amount \in Int
    BY <1>4, <2>1, LedgerAssumption DEF Reverse, PaymentDocs, Amounts
  <2>6. \A x \in Payments \ {p, q} : Settled'[x] = Settled[x]
    BY <2>1 DEF Settled, Is
  <2>7. \A x \in Payments \ {p} : Settled'[x] = Settled[x]
    BY <2>2, <2>6
  <2>8. balance' - balance = Settled[p] - Settled'[p]
    BY <1>0, <2>3, <2>4, <2>5
  <2>9. QED
    BY <1>1, <1>2, <1>4, <2>7, <2>8
<1>5. ASSUME NEW r \in Requests, NEW i \in InvoiceIds, InvoiceSave(r, i) PROVE BalanceAccounts'
  <2>1. /\ invoice[i] = None /\ unposted' = unposted \cup {i} /\ payment' = payment /\ balance' = balance
        /\ \A j \in InvoiceIds \ {i} : invoice'[j] = invoice[j]
    BY <1>0, <1>5 DEF InvoiceSave
  <2>2. Settled' = Settled
    BY <2>1 DEF Settled, Is
  <2>3. Invoiced[i] = 0 /\ Missing[i] = 0 /\ Missing'[i] = Invoiced'[i]
    BY <2>1 DEF Invoiced, Missing
  <2>4. \A j \in InvoiceIds \ {i} : Invoiced'[j] = Invoiced[j]
    BY <2>1 DEF Invoiced
  <2>5. \A j \in InvoiceIds \ {i} : Missing'[j] = Missing[j]
    BY <2>1, <2>4 DEF Missing
  <2>6. Total(Invoiced') - Invoiced'[i] = Total(Invoiced) - Invoiced[i] /\ Total(Invoiced') \in Nat
    BY <1>t, <2>4, Finite, TotalChange
  <2>7. Total(Missing') - Missing'[i] = Total(Missing) - Missing[i] /\ Total(Missing') \in Nat
    BY <1>t, <2>5, Finite, TotalChange
  <2>8. Invoiced'[i] \in Nat
    BY <1>t, Finite
  <2>9. balance' = Total(Invoiced') - Total(Missing') - Total(Settled')
    BY <1>0, <1>n, <1>b, <2>1, <2>2, <2>3, <2>6, <2>7, <2>8
  <2>10. QED
    BY <2>9 DEF BalanceAccounts
<1>6. ASSUME NEW r \in Requests, InvoicePost(r) PROVE BalanceAccounts'
  <2> DEFINE i == req[r].id
  <2>1. /\ i \in InvoiceIds /\ i \in unposted /\ invoice[i] # None
    BY <1>0, <1>6 DEF InvoicePost, PostsDue, Idle, SaveReq, PostReq
  <2>2. /\ balance' = balance + invoice[i].total /\ unposted' = unposted \ {i}
        /\ invoice' = invoice /\ payment' = payment
    BY <1>6 DEF InvoicePost
  <2> HIDE DEF i
  <2>3. Settled' = Settled /\ Invoiced' = Invoiced
    BY <2>2 DEF Settled, Is, Invoiced
  <2>4. Missing[i] = invoice[i].total /\ Missing[i] \in Nat
    BY <1>t, <2>1, Finite DEF Missing, Invoiced
  <2>5. \A u \in InvoiceIds : u = req[r].id => Missing'[u] = 0
    BY <2>2 DEF Missing, i
  <2>6. \A j \in InvoiceIds : j # req[r].id => Missing'[j] = Missing[j]
    BY <2>2, <2>3 DEF Missing, i
  <2>7. PICK u \in InvoiceIds : u = i
    BY <2>1
  <2>8. Total(Missing') - Missing'[u] = Total(Missing) - Missing[u] /\ Total(Missing') \in Nat
        /\ Total(Missing) >= Missing[u]
    BY <1>t, <2>6, <2>7, Finite, TotalChange DEF i
  <2>9. Missing'[u] = 0 /\ Missing[u] = invoice[i].total
    BY <2>4, <2>5, <2>7 DEF i
  <2>10. balance' = Total(Invoiced') - Total(Missing') - Total(Settled')
    BY <1>0, <1>n, <1>b, <2>2, <2>3, <2>4, <2>8, <2>9
  <2>11. QED
    BY <2>10 DEF BalanceAccounts
<1>7. CASE UNCHANGED <<balance, invoice, payment, unposted>>
  <2>1. Settled' = Settled /\ Invoiced' = Invoiced
    BY <1>7 DEF Settled, Is, Invoiced
  <2>2. Missing' = Missing
    BY <1>7, <2>1 DEF Missing
  <2>3. QED
    BY <1>7, <2>1, <2>2 DEF BalanceAccounts
<1>8. ASSUME NEW r \in Requests, (\E o \in Orders : InvoiceFind(r, o)) \/ Abandon(r)
      PROVE  UNCHANGED <<balance, invoice, payment, unposted>>
  BY <1>8 DEF InvoiceFind, Abandon
<1>9. QED
  <2>1. CASE UNCHANGED vars
    BY <1>7, <2>1 DEF vars
  <2>2. CASE Next
    BY <1>3, <1>4, <1>5, <1>6, <1>7, <1>8, <2>2 DEF Next
  <2>3. QED
    BY <2>1, <2>2

\* What a step of a payment makes of what it allocates to an invoice, and of
\* what was paid of the invoice.
LEMMA AppliedStep ==
  ASSUME TypeOK, NEW p \in Payments, NEW i \in InvoiceIds, invoice[i] # None,
         invoice[i].paid >= Applied(i)[p],
         CreateCleared(p) \/ CreatePending(p) \/ Clear(p) \/ Bounce(p) \/ Remove(p)
  PROVE  /\ invoice'[i].paid - invoice[i].paid = Applied(i)'[p] - Applied(i)[p]
         /\ invoice'[i].paid \in Nat
<1>0. /\ payment \in [Payments -> PaymentDocs \cup {None}]
      /\ invoice[i] \in InvoiceDocs /\ invoice[i].paid \in Nat
  BY DEF TypeOK, InvoiceDocs
<1>n. \A a \in Allocations : a[i] \in Nat
  BY Finite DEF Allocations
<1>1. ASSUME NEW doc \in PaymentDocs, payment' = [payment EXCEPT ![p] = doc]
      PROVE  Applied(i)'[p] = IF doc.status # "Bounced" THEN doc.alloc[i] ELSE 0
  <2>1. payment'[p] = doc /\ payment'[p] # None
    BY <1>0, <1>1, DocumentAssumption
  <2>2. QED
    BY <2>1 DEF Applied
<1>2. ASSUME NEW a \in Allocations, Unapply(a), invoice[i].paid >= a[i]
      PROVE  invoice'[i].paid = invoice[i].paid - a[i]
  <2>1. a[i] = 0 => invoice'[i] = invoice[i]
    BY <1>2, Unapplies
  <2>2. a[i] # 0 => invoice'[i].paid = Less(invoice[i].paid, a[i])
    BY <1>2, Unapplies
  <2>3. QED
    BY <1>0, <1>n, <1>2, <2>1, <2>2 DEF Less
<1>3. CASE CreateCleared(p)
  <2>1. PICK amount \in Amounts, named \in InvoiceIds \cup {None}, a \in Allocations :
          /\ AllocatedNow(amount, named, a) /\ Apply(a)
          /\ payment' = [payment EXCEPT ![p] = NewPayment(amount, "Cleared", named, a)]
    BY <1>3 DEF CreateCleared
  <2>2. NewPayment(amount, "Cleared", named, a) \in PaymentDocs
    BY NewIs DEF NewPayment
  <2>3. Applied(i)[p] = 0
    BY <1>3 DEF CreateCleared, Applied
  <2>4. Applied(i)'[p] = a[i]
    <3>1. Applied(i)'[p] = IF NewPayment(amount, "Cleared", named, a).status # "Bounced"
                              THEN NewPayment(amount, "Cleared", named, a).alloc[i] ELSE 0
      BY <1>1, <2>1, <2>2
    <3>2. QED
      BY <3>1 DEF NewPayment
  <2>5. invoice'[i].paid = invoice[i].paid + a[i]
    BY <2>1, Applies
  <2>6. QED
    BY <1>0, <1>n, <2>3, <2>4, <2>5
<1>4. CASE CreatePending(p)
  <2>1. PICK amount \in Amounts, named \in InvoiceIds \cup {None} :
          payment' = [payment EXCEPT ![p] = NewPayment(amount, "Pending", named, Nothing)]
    BY <1>4 DEF CreatePending
  <2>2. NewPayment(amount, "Pending", named, Nothing) \in PaymentDocs
    <3>1. Nothing \in Allocations
      BY Finite DEF Nothing, Allocations
    <3>2. QED
      BY <3>1, NewIs DEF NewPayment
  <2>3. Applied(i)[p] = 0
    BY <1>4 DEF CreatePending, Applied
  <2>4. Applied(i)'[p] = 0
    <3>1. Applied(i)'[p] = IF NewPayment(amount, "Pending", named, Nothing).status # "Bounced"
                              THEN NewPayment(amount, "Pending", named, Nothing).alloc[i] ELSE 0
      BY <1>1, <2>1, <2>2
    <3>2. QED
      BY <3>1 DEF NewPayment, Nothing
  <2>5. invoice' = invoice
    BY <1>4 DEF CreatePending
  <2>6. QED
    BY <1>0, <2>3, <2>4, <2>5
<1>5. CASE Clear(p)
  <2>1. payment[p] \in PaymentDocs /\ payment[p] # None /\ payment[p].status = "Pending"
    BY <1>0, <1>5, DocumentAssumption DEF Clear, Is
  <2>2. PICK a \in Allocations :
          /\ IF payment[p].alloc = Nothing
                THEN AllocatedLater(payment[p].amount, payment[p].named, a) /\ Apply(a)
                ELSE a = payment[p].alloc /\ UNCHANGED invoice
          /\ payment' = [payment EXCEPT ![p].status = "Cleared", ![p].alloc = a]
    BY <1>5 DEF Clear
  <2>3. payment' = [payment EXCEPT ![p] = [payment[p] EXCEPT !.status = "Cleared", !.alloc = a]]
    BY <1>0, <2>2
  <2>4. [payment[p] EXCEPT !.status = "Cleared", !.alloc = a] \in PaymentDocs
    BY <2>1 DEF PaymentDocs
  <2>5. Applied(i)'[p] = a[i]
    <3>1. /\ [payment[p] EXCEPT !.status = "Cleared", !.alloc = a].status = "Cleared"
          /\ [payment[p] EXCEPT !.status = "Cleared", !.alloc = a].alloc = a
      BY <2>1 DEF PaymentDocs
    <3>2. QED
      BY <1>1, <2>3, <2>4, <3>1
  <2>6. Applied(i)[p] = payment[p].alloc[i]
    BY <2>1 DEF Applied
  <2>7. CASE payment[p].alloc = Nothing
    <3>1. payment[p].amount \in Amounts /\ payment[p].named \in InvoiceIds \cup {None}
      BY <2>1 DEF PaymentDocs
    <3>2. invoice'[i].paid = invoice[i].paid + a[i]
      BY <2>2, <2>7, <3>1, Applies
    <3>3. Applied(i)[p] = 0
      BY <2>6, <2>7 DEF Nothing
    <3>4. QED
      BY <1>0, <1>n, <2>5, <3>2, <3>3
  <2>8. CASE payment[p].alloc # Nothing
    BY <1>0, <1>n, <2>2, <2>5, <2>6, <2>8
  <2>9. QED
    BY <2>7, <2>8
<1>6. CASE Bounce(p)
  <2>1. payment[p] \in PaymentDocs /\ payment[p] # None /\ payment[p].status # "Bounced"
        /\ payment[p].alloc \in Allocations
    BY <1>0, <1>6, DocumentAssumption DEF Bounce, Is, PaymentDocs
  <2>2. payment' = [payment EXCEPT ![p] = [payment[p] EXCEPT !.status = "Bounced"]]
    BY <1>0, <1>6 DEF Bounce
  <2>3. [payment[p] EXCEPT !.status = "Bounced"] \in PaymentDocs
        /\ [payment[p] EXCEPT !.status = "Bounced"].status = "Bounced"
    BY <2>1 DEF PaymentDocs
  <2>4. Applied(i)'[p] = 0
    BY <1>1, <2>2, <2>3
  <2>5. Applied(i)[p] = payment[p].alloc[i]
    BY <2>1 DEF Applied
  <2>6. invoice'[i].paid = invoice[i].paid - payment[p].alloc[i]
    BY <1>2, <1>6, <2>1, <2>5 DEF Bounce
  <2>7. QED
    BY <1>0, <1>n, <2>1, <2>4, <2>5, <2>6
<1>7. CASE Remove(p)
  <2>1. payment[p] \in PaymentDocs /\ payment[p] # None /\ payment[p].status \in {"Pending", "Bounced"}
        /\ payment[p].alloc \in Allocations
    BY <1>0, <1>7, DocumentAssumption DEF Remove, Is, PaymentDocs
  <2>2. payment'[p] = None
    BY <1>0, <1>7 DEF Remove
  <2>3. Applied(i)'[p] = 0
    BY <2>2 DEF Applied
  <2>4. CASE payment[p].status = "Pending"
    <3>1. Applied(i)[p] = payment[p].alloc[i]
      BY <2>1, <2>4 DEF Applied
    <3>2. invoice'[i].paid = invoice[i].paid - payment[p].alloc[i]
      BY <1>2, <1>7, <2>1, <2>4, <3>1 DEF Remove
    <3>3. QED
      BY <1>0, <1>n, <2>1, <2>3, <3>1, <3>2
  <2>5. CASE payment[p].status = "Bounced"
    <3>1. Applied(i)[p] = 0 /\ invoice' = invoice
      BY <1>7, <2>5 DEF Applied, Remove
    <3>2. QED
      BY <1>0, <2>3, <3>1
  <2>6. QED
    BY <2>1, <2>4, <2>5
<1>8. QED
  BY <1>3, <1>4, <1>5, <1>6, <1>7

\* What a payment allocates, it allocates to an invoice that is there.
LEMMA AllocatedStep ==
  ASSUME TypeOK, PostsDue, AllocatedExist, [Next]_vars
  PROVE  AllocatedExist'
<1>0. /\ payment \in [Payments -> PaymentDocs \cup {None}]
      /\ invoice \in [InvoiceIds -> InvoiceDocs \cup {None}]
  BY DEF TypeOK
<1>n. /\ \A i \in InvoiceIds : Nothing[i] = 0
      /\ \A a \in Allocations, i \in InvoiceIds : a[i] \in Nat
  BY Finite DEF Nothing, Allocations
<1>1. ASSUME NEW p \in Payments, CreateCleared(p) \/ CreatePending(p) \/ Clear(p) \/ Bounce(p) \/ Remove(p)
      PROVE  AllocatedExist'
  <2>1. \A x \in Payments \ {p} : payment'[x] = payment[x]
    BY <1>1, PaymentStep
  <2>2. \A i \in InvoiceIds : invoice[i] = None <=> invoice'[i] = None
    BY <1>1, InvoiceKept
  <2>3. ASSUME NEW i \in InvoiceIds, payment'[p] # None, payment'[p].alloc[i] > 0
        PROVE  invoice[i] # None
    <3>1. CASE CreateCleared(p)
      <4>1. PICK amount \in Amounts, named \in InvoiceIds \cup {None}, a \in Allocations :
              /\ AllocatedNow(amount, named, a)
              /\ payment' = [payment EXCEPT ![p] = NewPayment(amount, "Cleared", named, a)]
        BY <3>1 DEF CreateCleared
      <4>2. payment'[p].alloc = a
        BY <1>0, <4>1 DEF NewPayment
      <4>3. a[i] # 0
        BY <1>n, <2>3, <4>2
      <4>4. QED
        BY <4>1, <4>3, Fits
    <3>2. CASE CreatePending(p)
      <4>1. payment'[p].alloc = Nothing
        BY <1>0, <3>2 DEF CreatePending, NewPayment
      <4>2. QED
        BY <1>n, <2>3, <4>1
    <3>3. CASE Clear(p)
      <4>1. payment[p] \in PaymentDocs /\ payment[p] # None
        BY <1>0, <3>3, DocumentAssumption DEF Clear, Is
      <4>2. PICK a \in Allocations :
              /\ IF payment[p].alloc = Nothing
                    THEN AllocatedLater(payment[p].amount, payment[p].named, a) /\ Apply(a)
                    ELSE a = payment[p].alloc /\ UNCHANGED invoice
              /\ payment' = [payment EXCEPT ![p].status = "Cleared", ![p].alloc = a]
        BY <3>3 DEF Clear
      <4>3. payment' = [payment EXCEPT ![p] = [payment[p] EXCEPT !.status = "Cleared", !.alloc = a]]
        BY <1>0, <4>2
      <4>4. payment'[p].alloc = a
        BY <1>0, <4>1, <4>3 DEF PaymentDocs
      <4>5. payment[p].amount \in Amounts /\ payment[p].named \in InvoiceIds \cup {None}
        BY <4>1 DEF PaymentDocs
      <4>6. CASE payment[p].alloc = Nothing
        BY <1>n, <2>3, <4>2, <4>4, <4>5, <4>6, Fits
      <4>7. CASE payment[p].alloc # Nothing
        BY <2>3, <4>1, <4>2, <4>4, <4>7 DEF AllocatedExist
      <4>8. QED
        BY <4>6, <4>7
    <3>4. CASE Bounce(p)
      <4>1. payment[p] \in PaymentDocs /\ payment[p] # None
        BY <1>0, <3>4, DocumentAssumption DEF Bounce, Is
      <4>2. payment' = [payment EXCEPT ![p] = [payment[p] EXCEPT !.status = "Bounced"]]
        BY <1>0, <3>4 DEF Bounce
      <4>3. payment'[p].alloc = payment[p].alloc
        BY <1>0, <4>1, <4>2 DEF PaymentDocs
      <4>4. QED
        BY <2>3, <4>1, <4>3 DEF AllocatedExist
    <3>5. CASE Remove(p)
      BY <1>0, <2>3, <3>5 DEF Remove
    <3>6. QED
      BY <1>1, <3>1, <3>2, <3>3, <3>4, <3>5
  <2>4. QED
    BY <2>1, <2>2, <2>3 DEF AllocatedExist
<1>2. ASSUME NEW p \in Payments, NEW q \in Payments, Reverse(p, q) PROVE AllocatedExist'
  <2>1. /\ payment[p] \in PaymentDocs
        /\ \A x \in Payments \ {p, q} : payment'[x] = payment[x]
        /\ payment'[p].alloc = payment[p].alloc /\ payment'[q].alloc = Nothing
    BY <1>2, ReverseStep
  <2>2. \A i \in InvoiceIds : invoice[i] = None <=> invoice'[i] = None
    BY <1>2, InvoiceKept
  <2>3. ~(0 > 0)
    OBVIOUS
  <2>4. QED
    BY <1>n, <2>1, <2>2, <2>3, DocumentAssumption DEF AllocatedExist
<1>3. ASSUME NEW r \in Requests, NEW i \in InvoiceIds, InvoiceSave(r, i) PROVE AllocatedExist'
  <2>1. payment' = payment /\ invoice[i] = None /\ (\A j \in InvoiceIds \ {i} : invoice'[j] = invoice[j])
    BY <1>0, <1>3 DEF InvoiceSave
  <2>2. QED
    BY <2>1 DEF AllocatedExist
<1>4. CASE UNCHANGED <<invoice, payment, wiped>>
  BY <1>4 DEF AllocatedExist
<1>5. QED
  BY <1>1, <1>2, <1>3, <1>4, DocStep

\* A reversal takes from an invoice what the payment had allocated to it.
LEMMA ReversedStep ==
  ASSUME TypeOK, NEW p \in Payments, NEW q \in Payments, Reverse(p, q),
         NEW i \in InvoiceIds, i \notin wiped', invoice[i] # None
  PROVE  /\ \A x \in Payments \ {p} : Applied(i)'[x] = Applied(i)[x]
         /\ invoice[i].paid >= Applied(i)[p] =>
               invoice'[i].paid - invoice[i].paid = Applied(i)'[p] - Applied(i)[p] /\ invoice'[i].paid \in Nat
<1>0. payment \in [Payments -> PaymentDocs \cup {None}] /\ invoice \in [InvoiceIds -> InvoiceDocs \cup {None}]
  BY DEF TypeOK
<1>1. /\ p # q /\ payment[p] \in PaymentDocs /\ payment[p].status = "Cleared"
      /\ payment[q] = None
      /\ \A x \in Payments \ {p, q} : payment'[x] = payment[x]
      /\ payment'[p] # None /\ payment'[p].status = "Bounced"
      /\ payment'[q] # None /\ payment'[q].alloc = Nothing
  BY ReverseStep
<1>2. Applied(i)[q] = 0 /\ Applied(i)'[q] = 0 /\ Applied(i)'[p] = 0
  BY <1>1 DEF Applied, Nothing
<1>3. Applied(i)[p] = payment[p].alloc[i]
  BY <1>1, DocumentAssumption DEF Applied
<1>4. \A x \in Payments \ {p, q} : Applied(i)'[x] = Applied(i)[x]
  BY <1>1 DEF Applied
<1>5. \A x \in Payments \ {p} : Applied(i)'[x] = Applied(i)[x]
  BY <1>2, <1>4
<1> DEFINE a == TakenBack(payment[p])
<1>6. a \in Allocations /\ payment[p].alloc \in Allocations /\ Unapply(a)
  BY <1>1, TakenBackIs DEF Reverse, PaymentDocs
<1>7. a[i] = payment[p].alloc[i]
  <2>1. CASE a = payment[p].alloc
    BY <2>1
  <2>2. CASE a # payment[p].alloc
    <3>1. wiped' = wiped \cup {payment[p].named}
      BY <2>2 DEF Reverse
    <3>2. i # payment[p].named
      BY <3>1
    <3>3. payment[p].alloc = Nothing /\ a[i] = 0
      BY <1>1, <2>2, <3>2, TakenBackIs
    <3>4. QED
      BY <3>3 DEF Nothing
  <2>3. QED
    BY <2>1, <2>2
<1>8. a[i] \in Nat /\ invoice[i].paid \in Nat
  BY <1>0, <1>6, Finite DEF Allocations, InvoiceDocs
<1>9. (a[i] = 0 => invoice'[i] = invoice[i]) /\ (a[i] # 0 => invoice'[i].paid = Less(invoice[i].paid, a[i]))
  BY <1>6, Unapplies
<1> HIDE DEF a
<1>10. invoice[i].paid >= a[i] => invoice'[i].paid = invoice[i].paid - a[i]
  BY <1>8, <1>9 DEF Less
<1>11. invoice[i].paid >= Applied(i)[p] =>
          invoice'[i].paid - invoice[i].paid = Applied(i)'[p] - Applied(i)[p] /\ invoice'[i].paid \in Nat
  BY <1>2, <1>3, <1>7, <1>8, <1>10
<1>12. QED
  BY <1>5, <1>11

\* What was paid of an invoice moves with what is allocated to it.
LEMMA PaidStep ==
  ASSUME TypeOK, PostsDue, AllocatedExist, PaidIsAllocated, [Next]_vars
  PROVE  PaidIsAllocated'
<1>0. /\ TypeOK' /\ payment \in [Payments -> PaymentDocs \cup {None}]
      /\ invoice \in [InvoiceIds -> InvoiceDocs \cup {None}]
  BY TypeStep DEF TypeOK
<1>t. \A i \in InvoiceIds : Applied(i) \in [Payments -> 0..MaxAmount] /\ Applied(i)' \in [Payments -> 0..MaxAmount]
  BY <1>0, SumsTyped, SumsTypedNext
<1>1. ASSUME NEW p \in Payments, NEW i \in InvoiceIds, i \notin wiped, invoice[i] # None,
             \A x \in Payments \ {p} : Applied(i)'[x] = Applied(i)[x],
             invoice[i].paid >= Applied(i)[p] =>
                invoice'[i].paid - invoice[i].paid = Applied(i)'[p] - Applied(i)[p] /\ invoice'[i].paid \in Nat
      PROVE  invoice'[i].paid = Total(Applied(i)')
  <2>1. invoice[i].paid = Total(Applied(i)) /\ invoice[i].paid \in Nat
    BY <1>0, <1>1 DEF PaidIsAllocated, InvoiceDocs
  <2>2. Applied(i) \in [Payments -> 0..MaxAmount] /\ Applied(i)' \in [Payments -> 0..MaxAmount]
    BY <1>t
  <2>3. Total(Applied(i)') - Applied(i)'[p] = Total(Applied(i)) - Applied(i)[p]
        /\ Total(Applied(i)) >= Applied(i)[p] /\ Total(Applied(i)') \in Nat
    BY <1>1, <2>2, Finite, TotalChange
  <2>4. Applied(i)[p] \in Nat /\ Applied(i)'[p] \in Nat
    BY <2>2, Finite
  <2>5. QED
    BY <1>1, <2>1, <2>3, <2>4
<1>2. ASSUME NEW p \in Payments, CreateCleared(p) \/ CreatePending(p) \/ Clear(p) \/ Bounce(p) \/ Remove(p)
      PROVE  PaidIsAllocated'
  <2> SUFFICES ASSUME NEW i \in InvoiceIds, i \notin wiped', invoice'[i] # None
               PROVE  invoice'[i].paid = Total(Applied(i)')
    BY DEF PaidIsAllocated
  <2>1. wiped' = wiped
    BY <1>2 DEF CreateCleared, CreatePending, Clear, Bounce, Remove
  <2>2. invoice[i] # None
    BY <1>2, InvoiceKept
  <2>3. \A x \in Payments \ {p} : payment'[x] = payment[x]
    BY <1>2, PaymentStep
  <2>4. \A x \in Payments \ {p} : Applied(i)'[x] = Applied(i)[x]
    BY <2>3 DEF Applied
  <2>5. invoice[i].paid >= Applied(i)[p] =>
           invoice'[i].paid - invoice[i].paid = Applied(i)'[p] - Applied(i)[p] /\ invoice'[i].paid \in Nat
    BY <1>2, <2>2, AppliedStep
  <2>6. QED
    BY <1>1, <2>1, <2>2, <2>4, <2>5
<1>3. ASSUME NEW p \in Payments, NEW q \in Payments, Reverse(p, q) PROVE PaidIsAllocated'
  <2> SUFFICES ASSUME NEW i \in InvoiceIds, i \notin wiped', invoice'[i] # None
               PROVE  invoice'[i].paid = Total(Applied(i)')
    BY DEF PaidIsAllocated
  <2>1. i \notin wiped /\ invoice[i] # None
    BY <1>3, InvoiceKept DEF Reverse
  <2>2. /\ \A x \in Payments \ {p} : Applied(i)'[x] = Applied(i)[x]
        /\ invoice[i].paid >= Applied(i)[p] =>
              invoice'[i].paid - invoice[i].paid = Applied(i)'[p] - Applied(i)[p] /\ invoice'[i].paid \in Nat
    BY <1>3, <2>1, ReversedStep
  <2>3. QED
    BY <1>1, <1>3, <2>1, <2>2
<1>4. ASSUME NEW r \in Requests, NEW j \in InvoiceIds, InvoiceSave(r, j) PROVE PaidIsAllocated'
  <2> SUFFICES ASSUME NEW i \in InvoiceIds, i \notin wiped', invoice'[i] # None
               PROVE  invoice'[i].paid = Total(Applied(i)')
    BY DEF PaidIsAllocated
  <2>1. payment' = payment /\ wiped' = wiped /\ invoice[j] = None
        /\ (\A x \in InvoiceIds \ {j} : invoice'[x] = invoice[x])
    BY <1>0, <1>4 DEF InvoiceSave
  <2>2. Applied(i)' = Applied(i)
    BY <2>1 DEF Applied
  <2>3. CASE i # j
    BY <2>1, <2>2, <2>3 DEF PaidIsAllocated
  <2>4. CASE i = j
    <3>1. invoice'[i].paid = 0
      BY <1>0, <1>4, <2>4 DEF InvoiceSave
    <3>2. \A x \in Payments : payment[x] # None => payment[x].alloc[i] \in Nat /\ ~(payment[x].alloc[i] > 0)
      BY <1>0, <2>1, <2>4, Finite DEF AllocatedExist, PaymentDocs, Allocations
    <3>3. \A x \in Payments : payment[x] # None => payment[x].alloc[i] = 0
      BY <3>2
    <3>4. Applied(i) \in [Payments -> {0}]
      BY <3>3 DEF Applied
    <3>5. Total(Applied(i)) = 0
      BY <3>4, TotalOfNothing
    <3>6. QED
      BY <2>2, <3>1, <3>5
  <2>5. QED
    BY <2>3, <2>4
<1>5. CASE UNCHANGED <<invoice, payment, wiped>>
  <2>1. \A i \in InvoiceIds : Applied(i)' = Applied(i)
    BY <1>5 DEF Applied
  <2>2. QED
    BY <1>5, <2>1 DEF PaidIsAllocated
<1>6. QED
  BY <1>2, <1>3, <1>4, <1>5, DocStep

-----------------------------------------------------------------------------
(* What payments give, and what was paid in all.                           *)

\* However it was found, an allocation takes no more than the amount.
LEMMA AllocationWithin ==
  ASSUME TypeOK, NEW amount \in Amounts, NEW named \in InvoiceIds \cup {None}, NEW a \in Allocations,
         AllocatedNow(amount, named, a) \/ AllocatedLater(amount, named, a)
  PROVE  Total(a) <= amount
<1>1. amount \in Nat /\ \A i \in InvoiceIds : Remaining(i) \in Int
  BY Finite DEF Amounts, Remaining, TypeOK, InvoiceDocs
<1>2. ASSUME named # None, NEW n \in Int, n <= amount, Single(named, n, a) PROVE Total(a) <= amount
  <2>1. named \in InvoiceIds /\ a[named] = n /\ \A j \in InvoiceIds \ {named} : a[j] = 0
    BY <1>2 DEF Single
  <2>2. Total(a) = n
    BY <2>1, Finite, TotalOfOne DEF Allocations
  <2>3. QED
    BY <1>2, <2>2
<1>3. CASE named # None /\ Single(named, amount, a)
  BY <1>1, <1>2, <1>3
<1>4. CASE named # None /\ Single(named, Smaller(amount, Remaining(named)), a)
  <2>1. Remaining(named) \in Int
    BY <1>1, <1>4
  <2>2. Smaller(amount, Remaining(named)) \in Int /\ Smaller(amount, Remaining(named)) <= amount
    BY <1>1, <2>1 DEF Smaller
  <2>3. QED
    BY <1>2, <1>4, <2>2
<1>5. CASE Fifo(amount, a)
  <2> DEFINE due == [i \in InvoiceIds |->
                       IF invoice[i] # None /\ invoice[i].status # "Paid" THEN Remaining(i) ELSE 0]
  <2>1. Total(a) = Smaller(amount, Total(due))
    BY <1>5 DEF Fifo
  <2>2. DOMAIN due = InvoiceIds
    OBVIOUS
  <2> HIDE DEF due
  <2>3. Total(due) \in Nat
    BY <2>2, Finite, UnitsFinite
  <2>4. QED
    BY <1>1, <2>1, <2>3 DEF Smaller
<1>6. QED
  BY <1>3, <1>4, <1>5 DEF AllocatedNow, AllocatedLater

\* Nothing is nothing.
LEMMA NothingGiven == Nothing \in Allocations /\ Total(Nothing) = 0 /\ \A i \in InvoiceIds : Nothing[i] = 0
<1>1. Nothing \in Allocations /\ Nothing \in [InvoiceIds -> {0}] /\ \A i \in InvoiceIds : Nothing[i] = 0
  BY Finite DEF Nothing, Allocations
<1>2. QED
  BY <1>1, TotalOfNothing

LEMMA WithinStep ==
  ASSUME TypeOK, PostsDue, AllocatesWithin, [Next]_vars
  PROVE  AllocatesWithin'
<1>0. payment \in [Payments -> PaymentDocs \cup {None}]
  BY DEF TypeOK
<1>1. ASSUME NEW p \in Payments, NEW doc \in PaymentDocs, payment' = [payment EXCEPT ![p] = doc],
             Total(doc.alloc) <= doc.amount
      PROVE  AllocatesWithin'
  <2>1. payment'[p] = doc /\ \A x \in Payments \ {p} : payment'[x] = payment[x]
    BY <1>0, <1>1
  <2>2. QED
    BY <1>1, <2>1 DEF AllocatesWithin
<1>2. ASSUME NEW p \in Payments, CreateCleared(p) PROVE AllocatesWithin'
  <2>1. PICK amount \in Amounts, named \in InvoiceIds \cup {None}, a \in Allocations :
          /\ AllocatedNow(amount, named, a)
          /\ payment' = [payment EXCEPT ![p] = NewPayment(amount, "Cleared", named, a)]
    BY <1>2 DEF CreateCleared
  <2>2. Total(a) <= amount
    BY <2>1, AllocationWithin
  <2>3. NewPayment(amount, "Cleared", named, a) \in PaymentDocs
    BY NewIs DEF NewPayment
  <2>4. /\ NewPayment(amount, "Cleared", named, a).alloc = a
        /\ NewPayment(amount, "Cleared", named, a).amount = amount
    BY DEF NewPayment
  <2>5. QED
    BY <1>1, <2>1, <2>2, <2>3, <2>4
<1>3. ASSUME NEW p \in Payments, CreatePending(p) PROVE AllocatesWithin'
  <2>1. PICK amount \in Amounts, named \in InvoiceIds \cup {None} :
          payment' = [payment EXCEPT ![p] = NewPayment(amount, "Pending", named, Nothing)]
    BY <1>3 DEF CreatePending
  <2>2. NewPayment(amount, "Pending", named, Nothing) \in PaymentDocs
    BY NewIs, NothingGiven DEF NewPayment
  <2>3. /\ NewPayment(amount, "Pending", named, Nothing).alloc = Nothing
        /\ NewPayment(amount, "Pending", named, Nothing).amount = amount
    BY DEF NewPayment
  <2>4. Total(Nothing) <= amount
    BY NothingGiven, Finite DEF Amounts
  <2>5. QED
    BY <1>1, <2>1, <2>2, <2>3, <2>4
<1>4. ASSUME NEW p \in Payments, Clear(p) PROVE AllocatesWithin'
  <2>1. payment[p] \in PaymentDocs /\ payment[p] # None
    BY <1>0, <1>4, DocumentAssumption DEF Clear, Is
  <2>2. PICK a \in Allocations :
          /\ IF payment[p].alloc = Nothing
                THEN AllocatedLater(payment[p].amount, payment[p].named, a) /\ Apply(a)
                ELSE a = payment[p].alloc /\ UNCHANGED invoice
          /\ payment' = [payment EXCEPT ![p].status = "Cleared", ![p].alloc = a]
    BY <1>4 DEF Clear
  <2> DEFINE doc == [payment[p] EXCEPT !.status = "Cleared", !.alloc = a]
  <2>3. payment' = [payment EXCEPT ![p] = doc]
    BY <1>0, <2>2
  <2>4. doc \in PaymentDocs /\ doc.alloc = a /\ doc.amount = payment[p].amount
    BY <2>1 DEF PaymentDocs
  <2>5. payment[p].amount \in Amounts /\ payment[p].named \in InvoiceIds \cup {None}
    BY <2>1 DEF PaymentDocs
  <2>6. Total(a) <= payment[p].amount
    <3>1. CASE payment[p].alloc = Nothing
      BY <2>2, <2>5, <3>1, AllocationWithin
    <3>2. CASE payment[p].alloc # Nothing
      BY <2>1, <2>2, <3>2 DEF AllocatesWithin
    <3>3. QED
      BY <3>1, <3>2
  <2> HIDE DEF doc
  <2>7. QED
    BY <1>1, <2>3, <2>4, <2>6
<1>5. ASSUME NEW p \in Payments, Bounce(p) PROVE AllocatesWithin'
  <2>1. payment[p] \in PaymentDocs /\ payment[p] # None
    BY <1>0, <1>5, DocumentAssumption DEF Bounce, Is
  <2> DEFINE doc == [payment[p] EXCEPT !.status = "Bounced"]
  <2>2. payment' = [payment EXCEPT ![p] = doc]
    BY <1>0, <1>5 DEF Bounce
  <2>3. doc \in PaymentDocs /\ doc.alloc = payment[p].alloc /\ doc.amount = payment[p].amount
    BY <2>1 DEF PaymentDocs
  <2> HIDE DEF doc
  <2>4. QED
    BY <1>1, <2>1, <2>2, <2>3 DEF AllocatesWithin
<1>6. ASSUME NEW p \in Payments, Remove(p) PROVE AllocatesWithin'
  <2>1. payment'[p] = None /\ \A x \in Payments \ {p} : payment'[x] = payment[x]
    BY <1>0, <1>6 DEF Remove
  <2>2. QED
    BY <2>1 DEF AllocatesWithin
<1>7. ASSUME NEW p \in Payments, NEW q \in Payments, Reverse(p, q) PROVE AllocatesWithin'
  <2>1. /\ p # q /\ payment[p] \in PaymentDocs /\ payment[p] # None
        /\ \A x \in Payments \ {p, q} : payment'[x] = payment[x]
        /\ payment'[p].alloc = payment[p].alloc /\ payment'[q].alloc = Nothing
    BY <1>7, ReverseStep, DocumentAssumption
  <2> DEFINE doc == [payment[p] EXCEPT !.status = "Bounced"]
             row == [amount |-> payment[p].amount, reversal |-> TRUE, status |-> "Cleared",
                     named |-> payment[p].named, alloc |-> Nothing]
  <2>2. payment' = [payment EXCEPT ![p] = doc, ![q] = row]
    BY <1>0, <1>7 DEF Reverse
  <2>3. doc.amount = payment[p].amount /\ row.amount = payment[p].amount
    BY <2>1 DEF PaymentDocs
  <2> HIDE DEF doc, row
  <2>4. payment'[p].amount = payment[p].amount /\ payment'[q].amount = payment[p].amount
    BY <1>0, <2>1, <2>2, <2>3
  <2>5. Total(Nothing) <= payment[p].amount
    BY <2>1, NothingGiven, Finite DEF PaymentDocs, Amounts
  <2>6. QED
    BY <2>1, <2>4, <2>5 DEF AllocatesWithin
<1>8. CASE UNCHANGED <<invoice, payment, wiped>>
  BY <1>8 DEF AllocatesWithin
<1>9. ASSUME NEW r \in Requests, NEW i \in InvoiceIds, InvoiceSave(r, i) PROVE AllocatesWithin'
  BY <1>9 DEF InvoiceSave, AllocatesWithin
<1>10. QED
  BY <1>2, <1>3, <1>4, <1>5, <1>6, <1>7, <1>8, <1>9, DocStep

\* What a payment gives is what it applies to each invoice.
LEMMA GivenIs ==
  ASSUME TypeOK, NEW p \in Payments
  PROVE  Given(p) \in Allocations /\ \A i \in InvoiceIds : Given(p)[i] = Applied(i)[p]
<1>1. payment[p] # None => payment[p].alloc \in Allocations
  BY DEF TypeOK, PaymentDocs
<1>2. QED
  BY <1>1, NothingGiven DEF Given, Applied

LEMMA GivenIsNext ==
  ASSUME TypeOK', NEW p \in Payments
  PROVE  Given(p)' \in Allocations /\ \A i \in InvoiceIds : Given(p)'[i] = Applied(i)'[p]
<1>1. payment'[p] # None => payment'[p].alloc \in Allocations
  BY DEF TypeOK, PaymentDocs
<1>2. QED
  BY <1>1, NothingGiven DEF Given, Applied

\* The sums of what was paid and given are over functions into amounts.
LEMMA GaveTyped ==
  ASSUME TypeOK, InvoiceAgrees, AllocatesWithin
  PROVE  Paid \in [InvoiceIds -> 0..MaxAmount] /\ Gave \in [Payments -> 0..MaxAmount]
<1>1. ASSUME NEW i \in InvoiceIds PROVE Paid[i] \in 0..MaxAmount
  BY Finite DEF Paid, TypeOK, InvoiceDocs, InvoiceAgrees
<1>2. ASSUME NEW p \in Payments PROVE Total(Given(p)) \in 0..MaxAmount
  <2>1. Given(p) \in [InvoiceIds -> 0..MaxAmount]
    BY GivenIs DEF Allocations
  <2>2. Total(Given(p)) \in Nat
    BY <2>1, Finite, TotalIsNat
  <2>3. \/ Given(p) = Nothing
        \/ Total(Given(p)) <= payment[p].amount /\ payment[p].amount \in 1..MaxAmount
    BY DEF Given, AllocatesWithin, TypeOK, PaymentDocs, Amounts
  <2>4. QED
    BY <2>2, <2>3, NothingGiven, Finite
<1>3. QED
  BY <1>1, <1>2 DEF Paid, Gave

LEMMA GaveTypedNext ==
  ASSUME TypeOK', InvoiceAgrees', AllocatesWithin'
  PROVE  Paid' \in [InvoiceIds -> 0..MaxAmount] /\ Gave' \in [Payments -> 0..MaxAmount]
<1>1. ASSUME NEW i \in InvoiceIds PROVE Paid'[i] \in 0..MaxAmount
  BY Finite DEF Paid, TypeOK, InvoiceDocs, InvoiceAgrees
<1>2. ASSUME NEW p \in Payments PROVE Total(Given(p)') \in 0..MaxAmount
  <2>1. Given(p)' \in [InvoiceIds -> 0..MaxAmount]
    BY GivenIsNext DEF Allocations
  <2>2. Total(Given(p)') \in Nat
    BY <2>1, Finite, TotalIsNat
  <2>3. \/ Given(p)' = Nothing
        \/ Total(Given(p)') <= payment'[p].amount /\ payment'[p].amount \in 1..MaxAmount
    BY DEF Given, AllocatesWithin, TypeOK, PaymentDocs, Amounts
  <2>4. QED
    BY <2>2, <2>3, NothingGiven, Finite
<1>3. QED
  BY <1>1, <1>2 DEF Paid, Gave

\* A step of one payment starts what it gives, ends it or leaves it.
LEMMA GivenStep ==
  ASSUME TypeOK, NEW p \in Payments, NEW q \in Payments,
         CreateCleared(p) \/ CreatePending(p) \/ Clear(p) \/ Bounce(p) \/ Remove(p) \/ Reverse(p, q)
  PROVE  Given(p) = Nothing \/ Given(p)' = Nothing \/ Given(p)' = Given(p)
<1>0. payment \in [Payments -> PaymentDocs \cup {None}]
  BY DEF TypeOK
<1>1. CASE CreateCleared(p) \/ CreatePending(p)
  BY <1>1 DEF CreateCleared, CreatePending, Given
<1>2. CASE Clear(p)
  <2>1. payment[p] \in PaymentDocs /\ payment[p] # None /\ payment[p].status = "Pending"
    BY <1>0, <1>2, DocumentAssumption DEF Clear, Is
  <2>2. PICK a \in Allocations :
          /\ payment[p].alloc # Nothing => a = payment[p].alloc
          /\ payment' = [payment EXCEPT ![p].status = "Cleared", ![p].alloc = a]
    BY <1>2 DEF Clear
  <2>3. Given(p) = payment[p].alloc
    BY <2>1 DEF Given
  <2>4. payment'[p] = [payment[p] EXCEPT !.status = "Cleared", !.alloc = a]
    BY <1>0, <2>2
  <2>5. [payment[p] EXCEPT !.status = "Cleared", !.alloc = a] \in PaymentDocs
    BY <2>1 DEF PaymentDocs
  <2>6. payment'[p] # None /\ payment'[p].alloc = a /\ payment'[p].status = "Cleared"
    BY <2>1, <2>4, <2>5, DocumentAssumption DEF PaymentDocs
  <2>7. Given(p)' = a
    BY <2>6 DEF Given
  <2>8. QED
    BY <2>2, <2>3, <2>7
<1>3. CASE Bounce(p) \/ Reverse(p, q)
  <2>1. payment'[p].status = "Bounced"
    <3>1. CASE Bounce(p)
      <4>1. payment[p] \in PaymentDocs
        BY <1>0, <3>1 DEF Bounce, Is
      <4>2. payment'[p] = [payment[p] EXCEPT !.status = "Bounced"]
        BY <1>0, <3>1 DEF Bounce
      <4>3. QED
        BY <4>1, <4>2 DEF PaymentDocs
    <3>2. CASE Reverse(p, q)
      BY <3>2, ReverseStep
    <3>3. QED
      BY <1>3, <3>1, <3>2
  <2>2. QED
    BY <2>1 DEF Given
<1>4. CASE Remove(p)
  <2>1. payment'[p] = None
    BY <1>0, <1>4 DEF Remove
  <2>2. QED
    BY <2>1 DEF Given
<1>5. QED
  BY <1>1, <1>2, <1>3, <1>4

\* What was paid in all moves with what is given in all.
LEMMA GaveStep ==
  ASSUME TypeOK, PostsDue, AllocatedExist, InvoiceAgrees, AllocatesWithin, PaidIsAllocated, PaidGave,
         [Next]_vars
  PROVE  PaidGave'
<1>0. /\ TypeOK' /\ AllocatedExist' /\ InvoiceAgrees' /\ AllocatesWithin'
      /\ invoice \in [InvoiceIds -> InvoiceDocs \cup {None}]
      /\ invoice' \in [InvoiceIds -> InvoiceDocs \cup {None}]
  BY TypeStep, AllocatedStep, AgreesStep, WithinStep DEF TypeOK
<1>t. /\ Paid \in [InvoiceIds -> 0..MaxAmount] /\ Gave \in [Payments -> 0..MaxAmount]
      /\ Paid' \in [InvoiceIds -> 0..MaxAmount] /\ Gave' \in [Payments -> 0..MaxAmount]
  BY <1>0, GaveTyped, GaveTypedNext
<1>a. \A i \in InvoiceIds :
        Applied(i) \in [Payments -> 0..MaxAmount] /\ Applied(i)' \in [Payments -> 0..MaxAmount]
  BY <1>0, SumsTyped, SumsTypedNext
<1>1. ASSUME NEW p \in Payments, wiped = {}, wiped' = {},
             \A x \in Payments \ {p} : Given(x)' = Given(x),
             Given(p) = Nothing \/ Given(p)' = Nothing \/ Given(p)' = Given(p),
             \A i \in InvoiceIds : invoice[i] = None <=> invoice'[i] = None,
             \A i \in InvoiceIds : invoice[i] # None /\ invoice[i].paid >= Applied(i)[p] =>
                invoice'[i].paid - invoice[i].paid = Applied(i)'[p] - Applied(i)[p]
      PROVE  PaidGave'
  <2>1. PICK g \in [InvoiceIds -> 0..MaxAmount], k \in [InvoiceIds -> 0..MaxAmount] :
          /\ g = Given(p) /\ k = Given(p)'
          /\ \A i \in InvoiceIds : g[i] = Applied(i)[p] /\ k[i] = Applied(i)'[p]
    BY <1>0, GivenIs, GivenIsNext DEF Allocations
  <2>2. ASSUME NEW i \in InvoiceIds PROVE Paid'[i] + g[i] = Paid[i] + k[i]
    <3>1. CASE invoice[i] = None
      <4>1. Applied(i)[p] = 0 /\ Applied(i)'[p] = 0
        <5>1. ~(payment[p] # None /\ payment[p].alloc[i] > 0)
          BY <3>1 DEF AllocatedExist
        <5>2. ~(payment'[p] # None /\ payment'[p].alloc[i] > 0)
          BY <1>0, <1>1, <3>1 DEF AllocatedExist
        <5>3. Applied(i)[p] \in Nat /\ Applied(i)'[p] \in Nat
          BY <1>a, Finite
        <5>4. ~(Applied(i)[p] > 0) /\ ~(Applied(i)'[p] > 0)
          BY <5>1, <5>2 DEF Applied
        <5>5. QED
          BY <5>3, <5>4
      <4>2. QED
        BY <1>1, <2>1, <3>1, <4>1 DEF Paid
    <3>2. CASE invoice[i] # None
      <4>1. invoice[i].paid = Total(Applied(i))
        BY <1>1, <3>2 DEF PaidIsAllocated
      <4>2. Total(Applied(i)) >= Applied(i)[p]
        BY <1>a, Finite, TotalChange
      <4>3. invoice'[i].paid - invoice[i].paid = Applied(i)'[p] - Applied(i)[p]
        BY <1>1, <3>2, <4>1, <4>2
      <4>4. Paid[i] = invoice[i].paid /\ Paid'[i] = invoice'[i].paid
        BY <1>1, <3>2 DEF Paid
      <4>5. Paid[i] \in Nat /\ Paid'[i] \in Nat /\ g[i] \in Nat /\ k[i] \in Nat
        BY <1>t, Finite
      <4>6. QED
        BY <2>1, <4>3, <4>4, <4>5
    <3>3. QED
      BY <3>1, <3>2
  <2>3. (\A i \in InvoiceIds : g[i] = 0) \/ (\A i \in InvoiceIds : k[i] = 0) \/ g = k
    BY <1>1, <2>1, NothingGiven
  <2>4. Total(Paid') + Total(g) = Total(Paid) + Total(k)
    BY <1>t, <2>2, <2>3, Finite, TotalMoves
  <2>5. Gave[p] = Total(g) /\ Gave'[p] = Total(k)
    BY <2>1 DEF Gave
  <2>6. \A x \in Payments \ {p} : Gave'[x] = Gave[x]
    BY <1>1 DEF Gave
  <2>7. Total(Gave') - Gave'[p] = Total(Gave) - Gave[p] /\ Total(Gave) \in Nat /\ Total(Gave') \in Nat
    BY <1>t, <2>6, Finite, TotalChange
  <2>8. Total(Paid) \in Nat /\ Total(Paid') \in Nat /\ Gave[p] \in Nat /\ Gave'[p] \in Nat
    BY <1>t, Finite, TotalIsNat
  <2>9. Total(Paid) = Total(Gave)
    BY <1>1 DEF PaidGave
  <2>10. Total(Paid') = Total(Gave')
    BY <2>4, <2>5, <2>7, <2>8, <2>9
  <2>11. QED
    BY <2>10 DEF PaidGave
<1>2. ASSUME NEW p \in Payments, CreateCleared(p) \/ CreatePending(p) \/ Clear(p) \/ Bounce(p) \/ Remove(p)
      PROVE  PaidGave'
  <2>1. CASE wiped' = {}
    <3>1. wiped = {}
      BY <1>2, <2>1 DEF CreateCleared, CreatePending, Clear, Bounce, Remove
    <3>2. \A x \in Payments \ {p} : payment'[x] = payment[x]
      BY <1>2, PaymentStep
    <3>3. \A x \in Payments \ {p} : Given(x)' = Given(x)
      BY <3>2 DEF Given
    <3>4. Given(p) = Nothing \/ Given(p)' = Nothing \/ Given(p)' = Given(p)
      BY <1>2, GivenStep
    <3>5. \A i \in InvoiceIds : invoice[i] = None <=> invoice'[i] = None
      BY <1>2, InvoiceKept
    <3>6. ASSUME NEW i \in InvoiceIds, invoice[i] # None, invoice[i].paid >= Applied(i)[p]
          PROVE  invoice'[i].paid - invoice[i].paid = Applied(i)'[p] - Applied(i)[p]
      BY <1>2, <3>6, AppliedStep
    <3>7. QED
      BY <1>1, <2>1, <3>1, <3>3, <3>4, <3>5, <3>6
  <2>2. CASE wiped' # {}
    BY <2>2 DEF PaidGave
  <2>3. QED
    BY <2>1, <2>2
<1>3. ASSUME NEW p \in Payments, NEW q \in Payments, Reverse(p, q) PROVE PaidGave'
  <2>1. CASE wiped' = {}
    <3>1. wiped = {}
      BY <1>3, <2>1 DEF Reverse
    <3>2. /\ \A x \in Payments \ {p, q} : payment'[x] = payment[x]
          /\ payment[q] = None /\ payment'[q].alloc = Nothing
      BY <1>3, ReverseStep
    <3>3. \A x \in Payments \ {p, q} : Given(x)' = Given(x)
      BY <3>2 DEF Given
    <3>4. Given(q)' = Given(q)
      BY <3>2 DEF Given
    <3>5. Given(p) = Nothing \/ Given(p)' = Nothing \/ Given(p)' = Given(p)
      BY <1>3, GivenStep
    <3>6. \A i \in InvoiceIds : invoice[i] = None <=> invoice'[i] = None
      BY <1>3, InvoiceKept
    <3>7. ASSUME NEW i \in InvoiceIds, invoice[i] # None, invoice[i].paid >= Applied(i)[p]
          PROVE  invoice'[i].paid - invoice[i].paid = Applied(i)'[p] - Applied(i)[p]
      BY <1>3, <2>1, <3>7, ReversedStep
    <3>8. \A x \in Payments \ {p} : Given(x)' = Given(x)
      BY <3>3, <3>4
    <3>9. QED
      BY <1>1, <2>1, <3>1, <3>5, <3>6, <3>7, <3>8
  <2>2. CASE wiped' # {}
    BY <2>2 DEF PaidGave
  <2>3. QED
    BY <2>1, <2>2
<1>4. ASSUME NEW r \in Requests, NEW j \in InvoiceIds, InvoiceSave(r, j) PROVE PaidGave'
  <2>1. /\ payment' = payment /\ wiped' = wiped /\ invoice[j] = None
        /\ invoice'[j].paid = 0
        /\ \A x \in InvoiceIds \ {j} : invoice'[x] = invoice[x]
    BY <1>0, <1>4 DEF InvoiceSave
  <2>2. Gave' = Gave
    BY <2>1 DEF Gave, Given
  <2>3. ASSUME NEW i \in InvoiceIds PROVE Paid'[i] = Paid[i]
    BY <2>1 DEF Paid
  <2>4. Paid' = Paid
    BY <1>t, <2>3
  <2>5. QED
    BY <2>1, <2>2, <2>4 DEF PaidGave
<1>5. CASE UNCHANGED <<invoice, payment, wiped>>
  <2>1. Paid' = Paid /\ Gave' = Gave
    BY <1>5 DEF Paid, Gave, Given
  <2>2. QED
    BY <1>5, <2>1 DEF PaidGave
<1>6. QED
  BY <1>2, <1>3, <1>4, <1>5, DocStep

\* The two books agree when nothing is between them.
LEMMA BooksCompared ==
  ASSUME TypeOK, BalanceAccounts, InvoiceAgrees, AllocatesWithin, PaidGave
  PROVE  BooksAgree
<1> SUFFICES ASSUME unposted = {}, wiped = {}
             PROVE  balance = Total(Due) - (Total(Settled) - Total(Gave))
  BY DEF BooksAgree
<1>1. /\ Paid \in [InvoiceIds -> 0..MaxAmount] /\ Gave \in [Payments -> 0..MaxAmount]
      /\ Invoiced \in [InvoiceIds -> 0..MaxAmount] /\ Settled \in [Payments -> 0..MaxAmount]
  BY GaveTyped, SumsTyped
<1>2. ASSUME NEW i \in InvoiceIds
      PROVE  Due[i] \in 0..MaxAmount /\ Invoiced[i] = Due[i] + Paid[i]
  <2>1. CASE invoice[i] = None
    BY <2>1, Finite DEF Due, Remaining, Paid, Invoiced
  <2>2. CASE invoice[i] # None
    <3>1. invoice[i].total \in 0..MaxAmount /\ invoice[i].paid \in Nat /\ invoice[i].paid <= invoice[i].total
      BY <2>2 DEF TypeOK, InvoiceDocs, InvoiceAgrees
    <3>2. QED
      BY <2>2, <3>1, Finite DEF Due, Remaining, Paid, Invoiced
  <2>3. QED
    BY <2>1, <2>2
<1>3. Due \in [InvoiceIds -> 0..MaxAmount]
  BY <1>2 DEF Due
<1>4. Total(Invoiced) = Total(Due) + Total(Paid)
  BY <1>1, <1>2, <1>3, Finite, TotalAdds
<1>5. Total(Missing) = 0
  <2>1. Missing \in [InvoiceIds -> {0}]
    BY DEF Missing
  <2>2. QED
    BY <2>1, TotalOfNothing
<1>6. Total(Paid) = Total(Gave)
  BY DEF PaidGave
<1>7. /\ Total(Due) \in Nat /\ Total(Paid) \in Nat /\ Total(Gave) \in Nat
      /\ Total(Invoiced) \in Nat /\ Total(Settled) \in Nat
  BY <1>1, <1>3, Finite, TotalIsNat
<1>8. balance = Total(Invoiced) - Total(Missing) - Total(Settled)
  BY DEF BalanceAccounts
<1>9. QED
  BY <1>4, <1>5, <1>6, <1>7, <1>8

-----------------------------------------------------------------------------
(* The oldest open invoices first.                                         *)

LEMMA LeastNumber ==
  ASSUME NEW T, T \subseteq Nat, T # {}
  PROVE  \E x \in T : \A y \in T : x <= y
<1>1. PICK x \in T : \A y \in T : <<y, x>> \notin OpToRel(<, Nat)
  BY NatLessThanWellFounded, WFMin
<1>2. ASSUME NEW y \in T PROVE x <= y
  <2>1. <<y, x>> \in Nat \X Nat
    OBVIOUS
  <2>2. ~(y < x)
    BY <1>1, <2>1 DEF OpToRel
  <2>3. QED
    BY <2>2
<1>3. QED
  BY <1>2

\* A sum grows with its places.
LEMMA TotalGrows ==
  ASSUME NEW S, IsFiniteSet(S), NEW f \in [S -> 0..MaxAmount], NEW g \in [S -> 0..MaxAmount],
         \A x \in S : f[x] <= g[x]
  PROVE  Total(f) <= Total(g) /\ (f # g => Total(f) < Total(g))
<1>0. MaxAmount \in Nat /\ \A x \in S : f[x] \in Nat /\ g[x] \in 0..MaxAmount
  BY LedgerAssumption
<1>1. Units(f) \in SUBSET Units(g)
  BY <1>0 DEF Units, Amounts
<1>2. IsFiniteSet(Units(g)) /\ Total(f) \in Nat /\ Total(g) \in Nat
  BY TotalIsNat
<1>3. Total(f) <= Total(g) /\ (Total(g) = Total(f) => Units(g) = Units(f))
  BY <1>1, <1>2, FS_Subset DEF Total
<1>4. ASSUME f # g PROVE Units(g) # Units(f)
  <2>1. PICK x \in S : f[x] # g[x]
    BY <1>4
  <2>2. f[x] < g[x] /\ g[x] \in Amounts
    BY <1>0, <2>1 DEF Amounts
  <2>3. <<x, g[x]>> \in Units(g) /\ <<x, g[x]>> \notin Units(f)
    BY <1>0, <2>2 DEF Units
  <2>4. QED
    BY <2>3
<1>5. QED
  BY <1>2, <1>3, <1>4

DueNow == [i \in InvoiceIds |->
              IF invoice[i] # None /\ invoice[i].status # "Paid" THEN Remaining(i) ELSE 0]

\* Of two allocations of the same amount, none is the first to give less.
LEMMA FifoSame ==
  ASSUME TypeOK, NEW amount \in Amounts, NEW a \in Allocations, NEW b \in Allocations,
         Fifo(amount, a), Fifo(amount, b), NEW i \in InvoiceIds,
         \A j \in InvoiceIds : j < i => a[j] = b[j], a[i] < b[i]
  PROVE  FALSE
<1>1. /\ a \in [InvoiceIds -> 0..MaxAmount] /\ b \in [InvoiceIds -> 0..MaxAmount]
      /\ \A j \in InvoiceIds : a[j] \in Nat /\ b[j] \in Nat /\ j \in Int /\ DueNow[j] \in Int
  BY Finite DEF Allocations, InvoiceIds, DueNow, Remaining, TypeOK, InvoiceDocs
<1>2. /\ b[i] <= DueNow[i]
      /\ \A j \in InvoiceIds : i < j /\ a[j] > 0 => a[i] = DueNow[i]
      /\ Total(a) = Smaller(amount, Total(DueNow)) /\ Total(b) = Smaller(amount, Total(DueNow))
  BY DEF Fifo, DueNow
<1>3. ASSUME NEW j \in InvoiceIds PROVE a[j] <= b[j]
  <2>1. CASE i < j
    <3>1. ~(a[j] > 0)
      BY <1>1, <1>2, <2>1
    <3>2. QED
      BY <1>1, <3>1
  <2>2. CASE j = i
    BY <1>1, <2>2
  <2>3. CASE j < i
    BY <1>1, <2>3
  <2>4. QED
    BY <1>1, <2>1, <2>2, <2>3
<1>4. a # b
  BY <1>1
<1>5. Total(a) < Total(b)
  BY <1>1, <1>3, <1>4, Finite, TotalGrows
<1>6. Total(b) \in Nat
  BY <1>1, Finite, TotalIsNat
<1>7. QED
  BY <1>2, <1>5, <1>6

\* allocateToInvoices, given no invoice, has at most one result.
LEMMA FifoUnique ==
  ASSUME TypeOK, NEW amount \in Amounts, NEW a \in Allocations, NEW b \in Allocations,
         Fifo(amount, a), Fifo(amount, b)
  PROVE  a = b
<1> SUFFICES ASSUME a # b PROVE FALSE
  OBVIOUS
<1> DEFINE T == {i \in InvoiceIds : a[i] # b[i]}
<1>1. T \subseteq Nat /\ T # {}
  <2>1. T \subseteq Nat
    BY DEF InvoiceIds
  <2>2. \E i \in InvoiceIds : a[i] # b[i]
    BY DEF Allocations
  <2>3. QED
    BY <2>1, <2>2
<1>2. PICK i \in T : \A j \in T : i <= j
  BY <1>1, LeastNumber
<1>3. \A j \in InvoiceIds : j < i => a[j] = b[j]
  BY <1>1, <1>2 DEF InvoiceIds
<1>4. a[i] \in Nat /\ b[i] \in Nat
  BY <1>2, Finite DEF Allocations
<1>5. CASE a[i] < b[i]
  BY <1>2, <1>3, <1>5, FifoSame
<1>6. CASE b[i] < a[i]
  <2>1. \A j \in InvoiceIds : j < i => b[j] = a[j]
    BY <1>3
  <2>2. QED
    BY <1>2, <1>6, <2>1, FifoSame
<1>7. QED
  BY <1>2, <1>4, <1>5, <1>6

\* What the loop keeps: the invoices before one that gets something are full.
InOrder(amount, a) ==
    /\ \A i \in InvoiceIds : a[i] <= DueNow[i]
    /\ \A i, j \in InvoiceIds : i < j /\ a[j] > 0 => a[i] = DueNow[i]
    /\ Total(a) <= amount

\* An allocation in order that is not yet all can give one more.
LEMMA OneMore ==
  ASSUME DueNow \in [InvoiceIds -> 0..MaxAmount], NEW amount \in Amounts, NEW a \in Allocations,
         InOrder(amount, a), Total(a) < amount, a # DueNow
  PROVE  \E b \in Allocations : InOrder(amount, b) /\ Total(b) = Total(a) + 1
<1> DEFINE T == {i \in InvoiceIds : a[i] # DueNow[i]}
<1>0. /\ a \in [InvoiceIds -> 0..MaxAmount] /\ amount \in Nat
      /\ \A i \in InvoiceIds : i \in Nat /\ a[i] \in Nat /\ DueNow[i] \in 0..MaxAmount /\ DueNow[i] \in Nat
  BY Finite DEF Allocations, InvoiceIds, Amounts
<1>1. T \subseteq Nat /\ T # {}
  BY <1>0
<1>2. PICK i \in T : \A j \in T : i <= j
  BY <1>1, LeastNumber
<1>3. a[i] < DueNow[i] /\ i \in InvoiceIds /\ a[i] + 1 \in 0..MaxAmount
  BY <1>0, <1>2, Finite DEF InOrder
<1>4. \A j \in InvoiceIds : i < j => a[j] = 0
  <2>1. \A j \in InvoiceIds : i < j => ~(a[j] > 0)
    BY <1>3, <1>0 DEF InOrder
  <2>2. QED
    BY <1>0, <2>1
<1>5. \A j \in InvoiceIds : j < i => a[j] = DueNow[j]
  BY <1>0, <1>2, <1>3
<1> DEFINE b == [a EXCEPT ![i] = a[i] + 1]
<1>6. /\ b \in Allocations /\ b \in [InvoiceIds -> 0..MaxAmount]
      /\ b[i] = a[i] + 1 /\ \A j \in InvoiceIds \ {i} : b[j] = a[j]
  BY <1>0, <1>3 DEF Allocations
<1> HIDE DEF b, T
<1>7. \A j \in InvoiceIds : b[j] <= DueNow[j]
  BY <1>0, <1>3, <1>6 DEF InOrder
<1>8. ASSUME NEW j \in InvoiceIds, NEW k \in InvoiceIds, j < k, b[k] > 0 PROVE b[j] = DueNow[j]
  <2>1. ~(i < k)
    BY <1>0, <1>3, <1>4, <1>6, <1>8
  <2>2. j < i
    BY <1>0, <1>3, <1>8, <2>1
  <2>3. QED
    BY <1>0, <1>3, <1>5, <1>6, <2>2
<1>9. Total(b) - b[i] = Total(a) - a[i] /\ Total(a) \in Nat /\ Total(b) \in Nat
  BY <1>0, <1>3, <1>6, Finite, TotalChange
<1>10. Total(b) = Total(a) + 1
  BY <1>0, <1>3, <1>6, <1>9
<1>11. InOrder(amount, b)
  BY <1>0, <1>7, <1>8, <1>9, <1>10 DEF InOrder
<1>12. QED
  BY <1>6, <1>10, <1>11

\* It has one: as far as the amount or the open invoices go, the oldest first.
LEMMA FifoExists ==
  ASSUME TypeOK, InvoiceAgrees, NEW amount \in Amounts
  PROVE  \E a \in Allocations : Fifo(amount, a)
<1>0. amount \in Nat /\ MaxAmount \in Nat
  BY Finite DEF Amounts
<1>1. DueNow \in [InvoiceIds -> 0..MaxAmount]
  <2>1. ASSUME NEW i \in InvoiceIds, invoice[i] # None PROVE Remaining(i) \in 0..MaxAmount
    <3>1. invoice[i].total \in 0..MaxAmount /\ invoice[i].paid \in Nat /\ invoice[i].paid <= invoice[i].total
      BY <2>1 DEF TypeOK, InvoiceDocs, InvoiceAgrees
    <3>2. QED
      BY <1>0, <2>1, <3>1 DEF Remaining
  <2>2. QED
    BY <1>0, <2>1 DEF DueNow
<1>2. Total(DueNow) \in Nat
  BY <1>1, Finite, TotalIsNat
<1>3. ASSUME NEW a \in Allocations, InOrder(amount, a)
      PROVE  Total(a) \in Nat /\ Total(a) <= Total(DueNow) /\ (a # DueNow => Total(a) < Total(DueNow))
  <2>1. a \in [InvoiceIds -> 0..MaxAmount] /\ \A i \in InvoiceIds : a[i] <= DueNow[i]
    BY <1>3 DEF Allocations, InOrder
  <2>2. QED
    BY <1>1, <2>1, Finite, TotalGrows, TotalIsNat
<1> DEFINE T == {Total(DueNow) - Total(a) : a \in {c \in Allocations : InOrder(amount, c)}}
<1>4. T \subseteq Nat
  BY <1>2, <1>3
<1>5. T # {}
  <2>1. \A i \in InvoiceIds : Nothing[i] <= DueNow[i] /\ ~(Nothing[i] > 0)
    BY <1>0, <1>1, NothingGiven
  <2>2. InOrder(amount, Nothing)
    BY <1>0, <2>1, NothingGiven DEF InOrder
  <2>3. QED
    BY <2>2, NothingGiven
<1>6. PICK m \in T : \A y \in T : m <= y
  BY <1>4, <1>5, LeastNumber
<1>7. PICK a \in Allocations : InOrder(amount, a) /\ m = Total(DueNow) - Total(a)
  BY <1>6
<1>8. Total(a) = amount \/ a = DueNow
  <2> SUFFICES ASSUME Total(a) # amount, a # DueNow PROVE FALSE
    OBVIOUS
  <2>1. Total(a) < amount
    BY <1>0, <1>3, <1>7 DEF InOrder
  <2>2. PICK b \in Allocations : InOrder(amount, b) /\ Total(b) = Total(a) + 1
    BY <1>1, <1>7, <2>1, OneMore
  <2>3. Total(DueNow) - Total(b) \in T
    BY <2>2
  <2>4. m <= Total(DueNow) - Total(b)
    BY <1>6, <2>3
  <2> HIDE DEF T
  <2>5. QED
    BY <1>2, <1>3, <1>7, <2>2, <2>4
<1> HIDE DEF T
<1>9. Total(a) = Smaller(amount, Total(DueNow))
  <2>1. Total(a) \in Nat /\ Total(a) <= Total(DueNow) /\ Total(a) <= amount
    BY <1>3, <1>7 DEF InOrder
  <2>2. CASE Total(a) = amount
    BY <1>0, <1>2, <2>1, <2>2 DEF Smaller
  <2>3. CASE a = DueNow
    BY <1>0, <1>2, <2>1, <2>3 DEF Smaller
  <2>4. QED
    BY <1>8, <2>2, <2>3
<1>10. Fifo(amount, a)
  BY <1>7, <1>9 DEF InOrder, Fifo, DueNow
<1>11. QED
  BY <1>10

-----------------------------------------------------------------------------
\* An outlet without documents, and one that an older version left with a
\* pending payment on an invoice, satisfy the invariant.
LEMMA InitCorrect == Init => LedgerInv
<1> SUFFICES ASSUME Init PROVE LedgerInv
  OBVIOUS
<1>0. req = [r \in Requests |-> Idle] /\ unposted = {} /\ wiped = {}
  BY DEF Init
<1>1. PostsDue
  BY <1>0 DEF PostsDue, Idle
<1>m. TypeOK => Total(Missing) = 0
  <2>1. Missing \in [InvoiceIds -> {0}]
    BY <1>0 DEF Missing
  <2>2. QED
    BY <2>1, TotalOfNothing
<1>2. CASE NoDocuments
  <2>1. TypeOK
    BY <1>0, <1>2 DEF NoDocuments, TypeOK
  <2>2. AllocatedExist /\ PaidIsAllocated /\ InvoiceAgrees
    BY <1>2 DEF NoDocuments, AllocatedExist, PaidIsAllocated, InvoiceAgrees
  <2>3. Invoiced \in [InvoiceIds -> {0}] /\ Settled \in [Payments -> {0}]
    BY <1>2 DEF NoDocuments, Invoiced, Settled, Is
  <2>4. Total(Invoiced) = 0 /\ Total(Settled) = 0
    BY <2>3, TotalOfNothing
  <2>5. BalanceAccounts
    BY <1>2, <1>m, <2>1, <2>4 DEF NoDocuments, BalanceAccounts
  <2>6. AllocatesWithin
    BY <1>2 DEF NoDocuments, AllocatesWithin
  <2>7. PaidGave
    <3>1. Paid \in [InvoiceIds -> {0}] /\ Gave \in [Payments -> {0}]
      BY <1>2, NothingGiven DEF NoDocuments, Paid, Gave, Given
    <3>2. QED
      BY <3>1, TotalOfNothing DEF PaidGave
  <2>8. QED
    BY <1>1, <2>1, <2>2, <2>5, <2>6, <2>7 DEF LedgerInv
<1>3. ASSUME NEW p \in Payments, NEW o \in Orders, NEW n \in 1..Grand[o], OlderPayment(p, o, n)
      PROVE  LedgerInv
  <2> DEFINE doc == [order |-> o, total |-> Grand[o], paid |-> n, status |-> StatusFor(n, Grand[o])]
             one == [i \in InvoiceIds |-> IF i = 1 THEN n ELSE 0]
             row == [amount |-> n, reversal |-> FALSE, status |-> "Pending", named |-> 1, alloc |-> one]
  <2>1. Grand[o] \in Nat /\ n \in Nat /\ n >= 1 /\ n <= Grand[o] /\ Grand[o] \in 0..MaxAmount /\ n \in 0..MaxAmount
        /\ n \in Amounts /\ 1 \in InvoiceIds
    BY <1>3, LedgerAssumption DEF OlderPayment, Amounts
  <2>2. one \in Allocations /\ one[1] = n /\ (\A i \in InvoiceIds \ {1} : one[i] = 0)
    BY <2>1, Finite DEF Allocations
  <2>3. row \in PaymentDocs /\ row # None /\ row.alloc = one /\ row.status = "Pending"
    <3> HIDE DEF one
    <3>1. row \in PaymentDocs
      BY <2>1, <2>2, NewIs
    <3>2. row.alloc = one /\ row.status = "Pending"
      OBVIOUS
    <3> HIDE DEF row
    <3>3. QED
      BY <3>1, <3>2, DocumentAssumption
  <2>4. doc \in InvoiceDocs /\ doc # None /\ doc.total = Grand[o] /\ doc.paid = n
        /\ doc.status = StatusFor(n, Grand[o])
    <3>1. StatusFor(n, Grand[o]) \in {"Unpaid", "Partial", "Paid"}
      BY DEF StatusFor
    <3>2. doc \in InvoiceDocs
      BY <2>1, <3>1 DEF InvoiceDocs
    <3>3. doc.total = Grand[o] /\ doc.paid = n /\ doc.status = StatusFor(n, Grand[o])
      OBVIOUS
    <3> HIDE DEF doc
    <3>4. QED
      BY <3>2, <3>3, DocumentAssumption
  <2>5. /\ balance = Grand[o]
        /\ invoice = [i \in InvoiceIds |-> IF i # 1 THEN None ELSE doc]
        /\ payment = [q \in Payments |-> IF q # p THEN None ELSE row]
    BY <1>3 DEF OlderPayment
  <2> HIDE DEF doc, one, row
  <2>6. TypeOK
    BY <1>0, <2>1, <2>3, <2>4, <2>5 DEF TypeOK
  <2>7. AllocatedExist
    <3>1. \A i \in InvoiceIds : row.alloc[i] > 0 => i = 1
      BY <2>2, <2>3
    <3>2. QED
      BY <2>1, <2>4, <2>5, <3>1 DEF AllocatedExist
  <2>8. InvoiceAgrees
    BY <2>1, <2>4, <2>5 DEF InvoiceAgrees
  <2>9. BalanceAccounts
    <3>1. Settled \in [Payments -> {0}]
      BY <2>3, <2>5 DEF Settled, Is
    <3>2. Total(Settled) = 0
      BY <3>1, TotalOfNothing
    <3>3. Invoiced \in [InvoiceIds -> 0..MaxAmount]
      BY <2>6, SumsTyped
    <3>4. Invoiced[1] = Grand[o] /\ (\A i \in InvoiceIds \ {1} : Invoiced[i] = 0)
      BY <2>1, <2>4, <2>5 DEF Invoiced
    <3>5. Total(Invoiced) = Grand[o]
      BY <2>1, <3>3, <3>4, Finite, TotalOfOne
    <3>6. QED
      BY <1>m, <2>1, <2>5, <2>6, <3>2, <3>5 DEF BalanceAccounts
  <2>10. PaidIsAllocated
    <3> SUFFICES ASSUME NEW i \in InvoiceIds, invoice[i] # None PROVE invoice[i].paid = Total(Applied(i))
      BY DEF PaidIsAllocated
    <3>1. i = 1 /\ invoice[i].paid = n
      BY <2>4, <2>5
    <3>2. Applied(i) \in [Payments -> 0..MaxAmount]
      BY <2>6, SumsTyped
    <3>3. Applied(i)[p] = n /\ (\A q \in Payments \ {p} : Applied(i)[q] = 0)
      BY <2>2, <2>3, <2>5, <3>1 DEF Applied
    <3>4. Total(Applied(i)) = n
      BY <3>2, <3>3, Finite, TotalOfOne
    <3>5. QED
      BY <3>1, <3>4
  <2>11. Total(one) = n
    BY <2>1, <2>2, Finite, TotalOfOne DEF Allocations
  <2>12. AllocatesWithin
    <3>1. row.amount = n /\ Total(row.alloc) <= row.amount
      BY <2>1, <2>3, <2>11 DEF row
    <3>2. QED
      BY <2>5, <3>1 DEF AllocatesWithin
  <2>13. PaidGave
    <3>1. Paid \in [InvoiceIds -> 0..MaxAmount] /\ Gave \in [Payments -> 0..MaxAmount]
      BY <2>6, <2>8, <2>12, GaveTyped
    <3>2. Paid[1] = n /\ (\A i \in InvoiceIds \ {1} : Paid[i] = 0)
      BY <2>1, <2>4, <2>5 DEF Paid
    <3>3. Gave[p] = n /\ (\A q \in Payments \ {p} : Gave[q] = 0)
      BY <2>3, <2>5, <2>11, NothingGiven DEF Gave, Given
    <3>4. Total(Paid) = n /\ Total(Gave) = n
      BY <2>1, <3>1, <3>2, <3>3, Finite, TotalOfOne
    <3>5. QED
      BY <3>4 DEF PaidGave
  <2>14. QED
    BY <1>1, <2>6, <2>7, <2>8, <2>9, <2>10, <2>12, <2>13 DEF LedgerInv
<1>4. QED
  BY <1>2, <1>3 DEF Init

\* Every step keeps the invariant.
LEMMA StepCorrect == LedgerInv /\ [Next]_vars => LedgerInv'
BY TypeStep, AllocatedStep, PostsStep, BalanceStep, PaidStep, AgreesStep, WithinStep, GaveStep DEF LedgerInv

-----------------------------------------------------------------------------
\* The balance, the invoices, the payments and the requests stay well formed.
THEOREM TypeCorrect == Spec => []TypeOK
<1>1. LedgerInv => TypeOK
  BY DEF LedgerInv
<1>2. QED
  BY InitCorrect, StepCorrect, <1>1, PTL DEF Spec

\* CollectionsService and FinanceService move the outlet's balance by what its
\* invoices and the payments that stand come to.
THEOREM Accounts == Spec => []BalanceAccounts
<1>1. LedgerInv => BalanceAccounts
  BY DEF LedgerInv
<1>2. QED
  BY InitCorrect, StepCorrect, <1>1, PTL DEF Spec

\* Clearing, bouncing, reversing and removing leave every invoice paid by what
\* the standing payments allocate to it.
THEOREM Allocates == Spec => []PaidIsAllocated
<1>1. LedgerInv => PaidIsAllocated
  BY DEF LedgerInv
<1>2. QED
  BY InitCorrect, StepCorrect, <1>1, PTL DEF Spec

\* allocateToInvoices pays no invoice beyond its total, however late a cheque
\* clears.
THEOREM NeverOverpaid == Spec => []InvoiceAgrees
<1>1. LedgerInv => InvoiceAgrees
  BY DEF LedgerInv
<1>2. QED
  BY InitCorrect, StepCorrect, <1>1, PTL DEF Spec

\* However a payment is allocated, at once or when its cheque clears, to the
\* invoices asked for, the one named or the oldest, it gives no more than it is.
THEOREM GivesWithin == Spec => []AllocatesWithin
<1>1. LedgerInv => AllocatesWithin
  BY DEF LedgerInv
<1>2. QED
  BY InitCorrect, StepCorrect, <1>1, PTL DEF Spec

\* The outlet's balance, kept by increments, and its invoices, paid one by
\* one, tell the same: what the invoices still ask for less the settled money
\* not allocated, when no posting is outstanding and no reversal took an amount
\* that was never allocated.
THEOREM BooksStayEqual == Spec => []BooksAgree
<1>1. LedgerInv => BooksAgree
  BY BooksCompared DEF LedgerInv
<1>2. QED
  BY InitCorrect, StepCorrect, <1>1, PTL DEF Spec
=============================================================================
