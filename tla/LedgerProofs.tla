---------------------------- MODULE LedgerProofs ----------------------------
(***************************************************************************)
(* Proofs that the three accounts of what is owed to those who leave agree *)
(* in every state: the legs of the pricing cache, the windows, and the     *)
(* claims; and that what matured windows still owe is in the contract's    *)
(* balance.  They are written from one another by saturating subtractions  *)
(* and floors, so that each relation needs the others: a leg shrinks by    *)
(* what is paid only because no window pays out more than it realised, and *)
(* no window does only because its claims add up to what it owed.          *)
(***************************************************************************)
EXTENDS TypeProofs

In(ws, state) == {id \in DOMAIN ws : ws[id].state = state}

OwedIn(ws, ids) == SumFunctionOnSet([id \in DOMAIN ws |-> ws[id].owed], ids)

\* The liability legs of a cache are the figures of the windows.
LegsMatch(t, ws, open) ==
    /\ t.owedOpen = ws[open].owed
    /\ t.owedUnbonding = OwedIn(ws, In(ws, "Unbonding"))
    /\ t.owedMatured = OutstandingOf(ws, In(ws, "Matured"))

\* A window realises something when it matures and not before.
RealisedLate(ws) ==
    \A id \in DOMAIN ws :
        ws[id].realised = None <=> ws[id].state \in {"Open", "Unbonding"}

\* What each account has claimed on a window, burned for it and been paid.
OwedTo(cl, id) ==
    [u \in Users |-> IF id \in DOMAIN cl[u] THEN cl[u][id].owed ELSE 0]

BurnedBy(cl, id) ==
    [u \in Users |-> IF id \in DOMAIN cl[u] THEN cl[u][id].shares ELSE 0]

ReceivedBy(ws, cl, id) ==
    [u \in Users |->
        IF id \in DOMAIN cl[u] /\ cl[u][id].claimed
        THEN PayoutForClaim(ws[id], cl[u][id].owed) ELSE 0]

ClaimsAgree(ws, cl, id) ==
    /\ SumFunctionOnSet(OwedTo(cl, id), Users) = ws[id].owed
    /\ SumFunctionOnSet(BurnedBy(cl, id), Users) = ws[id].shares
    /\ SumFunctionOnSet(ReceivedBy(ws, cl, id), Users) = ws[id].claimed

\* Nothing is paid before the window matures.
PaidLate(ws, cl) ==
    \A u \in Users : \A id \in DOMAIN cl[u] :
        cl[u][id].claimed => ws[id].state \in {"Matured", "Settled"}

Books(t, ws, open, cl) ==
    /\ LegsMatch(t, ws, open)
    /\ RealisedLate(ws)
    /\ \A id \in DOMAIN ws : ClaimsAgree(ws, cl, id)
    /\ PaidLate(ws, cl)

\* Windows numbered up to the open one, and claims on them.
Shaped(ws, n, cl) ==
    /\ n \in Nat \ {0}
    /\ ws \in [0 .. n - 1 -> AWindow]
    /\ In(ws, "Open") = {n - 1}
    /\ \A u \in Users :
         /\ DOMAIN cl[u] \in SUBSET (0 .. n - 1)
         /\ \A id \in DOMAIN cl[u] : cl[u][id] \in ClaimRecord

-----------------------------------------------------------------------------
(* The figures of a claim and of a list of windows are amounts.            *)
LEMMA ShapedNumbers ==
    ASSUME NEW ws, NEW n, NEW cl, Shaped(ws, n, cl), NEW id \in DOMAIN ws
    PROVE  /\ DOMAIN ws = 0 .. n - 1 /\ IsFiniteSet(DOMAIN ws)
           /\ ws[id] \in AWindow
           /\ OwedTo(cl, id) \in [Users -> Nat]
           /\ BurnedBy(cl, id) \in [Users -> Nat]
           /\ ReceivedBy(ws, cl, id) \in [Users -> Nat]
  <1>1. DOMAIN ws = 0 .. n - 1 /\ ws[id] \in AWindow /\ n - 1 \in Int
    BY DEF Shaped
  <1>2. IsFiniteSet(0 .. n - 1)
    BY <1>1, FS_Interval
  <1>3. \A u \in Users : id \in DOMAIN cl[u] =>
            cl[u][id].owed \in Nat /\ cl[u][id].shares \in Nat
    BY DEF Shaped, ClaimRecord
  <1>4. OwedTo(cl, id) \in [Users -> Nat] /\ BurnedBy(cl, id) \in [Users -> Nat]
    BY <1>3 DEF OwedTo, BurnedBy
  <1>5. \A u \in Users : id \in DOMAIN cl[u] =>
            PayoutForClaim(ws[id], cl[u][id].owed) \in Nat
    BY <1>1, <1>3, PayoutNat
  <1>6. ReceivedBy(ws, cl, id) \in [Users -> Nat]
    BY <1>5 DEF ReceivedBy
  <1> QED BY <1>1, <1>2, <1>4, <1>6

(* No window has paid out more than it can: the floors of all payouts      *)
(* together stay within what the window realised (windows.rs,              *)
(* payout_for_claim), since the claims add up to what it owed.             *)
LEMMA NeverOverpaid ==
    ASSUME NEW ws, NEW n, NEW cl, Shaped(ws, n, cl), NEW id \in DOMAIN ws,
           ClaimsAgree(ws, cl, id)
    PROVE  ws[id].claimed <= Payable(ws[id])
  <1> DEFINE w == ws[id]
             f == OwedTo(cl, id)
             p == ReceivedBy(ws, cl, id)
  <1>1. w \in AWindow /\ f \in [Users -> Nat] /\ p \in [Users -> Nat]
    BY ShapedNumbers
  <1>2. w.owed \in Nat /\ Payable(w) \in Nat /\ w.claimed \in Nat
    BY <1>1, WindowFields
  <1>3. IsFiniteSet(Users)
    BY FiniteConstants
  <1>4. SumFunctionOnSet(f, Users) = w.owed /\ SumFunctionOnSet(p, Users) = w.claimed
    BY DEF ClaimsAgree
  <1>5. \A u \in Users : p[u] = 0 \/ p[u] = PayoutForClaim(w, f[u])
    BY DEF ReceivedBy, OwedTo
  <1> HIDE DEF w, f, p
  <1>6. CASE Payable(w) = w.owed
    <2>1. \A u \in Users : p[u] \in Nat /\ f[u] \in Nat /\ p[u] <= f[u]
      BY <1>1, <1>5, <1>6 DEF PayoutForClaim
    <2>2. SumFunctionOnSet(p, Users) <= SumFunctionOnSet(f, Users)
      BY <1>3, <2>1, SumAtMost
    <2> QED BY <1>4, <1>6, <2>2 DEF w
  <1>7. CASE Payable(w) # w.owed /\ w.owed = 0
    <2>1. \A u \in Users : p[u] = 0
      BY <1>5, <1>7 DEF PayoutForClaim
    <2>2. SumFunctionOnSet(p, Users) = 0
      BY <1>3, <2>1, SumZero
    <2> QED BY <1>2, <1>4, <2>2 DEF w
  <1>8. CASE Payable(w) # w.owed /\ w.owed # 0
    <2> DEFINE R  == Payable(w)
               pO == [u \in Users |-> w.owed * p[u]]
               fR == [u \in Users |-> R * f[u]]
    <2>1. \A u \in Users : p[u] \in Nat /\ f[u] \in Nat
      BY <1>1
    <2>2. ASSUME NEW u \in Users PROVE w.owed * p[u] <= R * f[u]
      <3>1. CASE p[u] = 0
        <4>1. R * f[u] \in Nat
          BY <1>2, <2>1, ProductNat
        <4> QED BY <1>2, <3>1, <4>1
      <3>2. CASE p[u] = MulDivFloor(f[u], R, w.owed)
        <4>1. w.owed \in Nat \ {0}
          BY <1>2, <1>8
        <4>2. w.owed * MulDivFloor(f[u], R, w.owed) <= f[u] * R
          BY <1>2, <2>1, <4>1, MulDivFloorBounds
        <4>3. f[u] * R = R * f[u]
          BY <1>2, <2>1
        <4> QED BY <3>2, <4>2, <4>3
      <3> QED BY <1>5, <1>8, <3>1, <3>2 DEF PayoutForClaim
    <2>3. \A u \in Users : w.owed * p[u] \in Nat /\ R * f[u] \in Nat
      BY <1>2, <2>1, ProductNat
    <2>4. \A u \in Users : pO[u] \in Nat /\ fR[u] \in Nat /\ pO[u] <= fR[u]
      BY <2>2, <2>3
    <2>5. /\ \A u \in Users : p[u] \in Nat /\ pO[u] = w.owed * p[u]
          /\ \A u \in Users : f[u] \in Nat /\ fR[u] = R * f[u]
      BY <2>1
    <2>6. R \in Nat
      BY <1>2
    <2> HIDE DEF R, pO, fR
    <2>7. SumFunctionOnSet(pO, Users) <= SumFunctionOnSet(fR, Users)
      BY <1>3, <2>4, SumAtMost
    <2>8. SumFunctionOnSet(pO, Users) = w.owed * SumFunctionOnSet(p, Users)
      BY <1>2, <1>3, <2>5, SumScaled
    <2>9. SumFunctionOnSet(fR, Users) = R * SumFunctionOnSet(f, Users)
      BY <1>3, <2>5, <2>6, SumScaled
    <2>10. w.owed * w.claimed <= R * w.owed
      BY <1>4, <2>7, <2>8, <2>9
    <2>11. ASSUME NEW a \in Nat \ {0}, NEW b \in Nat, NEW c \in Nat, a * b <= c * a
           PROVE  b <= c
      <3>1. ASSUME b >= c + 1 PROVE FALSE
        <4>1. a * (c + 1) <= a * b
          BY <3>1, ProductMonotone
        <4>2. a * (c + 1) = a * c + a /\ a * c = c * a /\ a * c \in Nat
          OBVIOUS
        <4> QED BY <2>11, <4>1, <4>2
      <3> QED BY <3>1
    <2>12. w.claimed <= R
      BY <1>2, <1>8, <2>10, <2>6, <2>11
    <2> QED BY <2>12 DEF R, w
  <1> QED BY <1>6, <1>7, <1>8

(* What windows owe depends on what each of them owes.                     *)
LEMMA SameOwed ==
    ASSUME NEW ws, NEW new, NEW S, IsFiniteSet(S), S \subseteq DOMAIN ws,
           S \subseteq DOMAIN new, \A id \in S : new[id].owed = ws[id].owed
    PROVE  OwedIn(new, S) = OwedIn(ws, S)
  <1> DEFINE f == [x \in DOMAIN ws |-> ws[x].owed]
             h == [x \in DOMAIN new |-> new[x].owed]
  <1>1. \A id \in S : h[id] = f[id]
    OBVIOUS
  <1> HIDE DEF f, h
  <1>2. SumFunctionOnSet(h, S) = SumFunctionOnSet(f, S)
    BY <1>1, SumExt
  <1> QED BY <1>2 DEF OwedIn, f, h

(* What is still to be paid depends on what each window still has to pay.  *)
LEMMA SameOutstanding ==
    ASSUME NEW ws, NEW new, NEW S, IsFiniteSet(S), S \subseteq DOMAIN ws,
           S \subseteq DOMAIN new,
           \A id \in S : Outstanding(new[id]) = Outstanding(ws[id])
    PROVE  OutstandingOf(new, S) = OutstandingOf(ws, S)
  <1> DEFINE f == [x \in DOMAIN ws |-> Outstanding(ws[x])]
             h == [x \in DOMAIN new |-> Outstanding(new[x])]
  <1>1. \A id \in S : h[id] = f[id]
    OBVIOUS
  <1> HIDE DEF f, h
  <1>2. SumFunctionOnSet(h, S) = SumFunctionOnSet(f, S)
    BY <1>1, SumExt
  <1> QED BY <1>2 DEF OutstandingOf, f, h

(* Sums over windows are amounts.                                          *)
LEMMA SumsNat ==
    ASSUME NEW ws, NEW S, IsFiniteSet(S), S \subseteq DOMAIN ws,
           \A x \in DOMAIN ws : ws[x] \in AWindow
    PROVE  OwedIn(ws, S) \in Nat /\ OutstandingOf(ws, S) \in Nat
  <1> DEFINE f == [x \in DOMAIN ws |-> ws[x].owed]
             h == [x \in DOMAIN ws |-> Outstanding(ws[x])]
  <1>1. \A id \in S : f[id] \in Nat /\ h[id] \in Nat
    BY WindowFields
  <1> HIDE DEF f, h
  <1>2. SumFunctionOnSet(f, S) \in Nat /\ SumFunctionOnSet(h, S) \in Nat
    BY <1>1, SumNat
  <1> QED BY <1>2 DEF OwedIn, OutstandingOf, f, h

(* A window more, or one less.                                             *)
LEMMA WindowAdded ==
    ASSUME NEW ws, NEW S, IsFiniteSet(S), S \subseteq DOMAIN ws,
           NEW id \in DOMAIN ws, id \notin S,
           \A x \in DOMAIN ws : ws[x] \in AWindow
    PROVE  OwedIn(ws, S \cup {id}) = OwedIn(ws, S) + ws[id].owed
  <1> DEFINE T == S \cup {id}
             f == [x \in DOMAIN ws |-> ws[x].owed]
  <1>1. IsFiniteSet(T) /\ T \ {id} = S /\ id \in T
    BY FS_AddElement
  <1>2. f[id] = ws[id].owed /\ \A x \in T : f[x] \in Nat
    BY WindowFields
  <1>3. \A x \in T : f[x] \in Int
    BY <1>2
  <1>4. f[id] \in Nat
    BY <1>1, <1>2
  <1> HIDE DEF T, f
  <1>5. /\ SumFunctionOnSet(f, T) = f[id] + SumFunctionOnSet(f, T \ {id})
        /\ SumFunctionOnSet(f, T \ {id}) \in Int
    BY <1>1, <1>3, SumElement
  <1>6. SumFunctionOnSet(f, T) = SumFunctionOnSet(f, S) + ws[id].owed
    BY <1>1, <1>2, <1>4, <1>5
  <1> QED BY <1>6 DEF OwedIn, T, f

(* What one account's figures on a window depend on.                       *)
LEMMA SameAccounts ==
    ASSUME NEW ws, NEW new, NEW cl, NEW id,
           ClaimsAgree(ws, cl, id),
           /\ new[id].owed = ws[id].owed /\ new[id].shares = ws[id].shares
           /\ new[id].claimed = ws[id].claimed
           /\ \/ \A u \in Users : id \in DOMAIN cl[u] => ~cl[u][id].claimed
              \/ Payable(new[id]) = Payable(ws[id])
    PROVE  ClaimsAgree(new, cl, id)
  <1>1. \A u \in Users : ReceivedBy(new, cl, id)[u] = ReceivedBy(ws, cl, id)[u]
    BY DEF ReceivedBy, PayoutForClaim
  <1>2. SumFunctionOnSet(ReceivedBy(new, cl, id), Users)
          = SumFunctionOnSet(ReceivedBy(ws, cl, id), Users)
    BY <1>1, FiniteConstants, SumExt
  <1> QED BY <1>2 DEF ClaimsAgree

(* A window that nobody has a claim on.                                    *)
LEMMA NoAccounts ==
    ASSUME NEW ws, NEW cl, NEW id, \A u \in Users : id \notin DOMAIN cl[u],
           ws[id].owed = 0 /\ ws[id].shares = 0 /\ ws[id].claimed = 0
    PROVE  ClaimsAgree(ws, cl, id)
  <1>1. \A u \in Users : /\ OwedTo(cl, id)[u] = 0 /\ BurnedBy(cl, id)[u] = 0
                         /\ ReceivedBy(ws, cl, id)[u] = 0
    BY DEF OwedTo, BurnedBy, ReceivedBy
  <1> QED BY <1>1, FiniteConstants, SumZero DEF ClaimsAgree

-----------------------------------------------------------------------------
(* close_open_window.                                                      *)
LEMMA ClosedFigures ==
    ASSUME NEW w \in AWindow, NEW used, NEW time, NEW secs
    PROVE  LET c == Close([w EXCEPT !.used = used], time, secs)
           IN  /\ c.owed = w.owed /\ c.shares = w.shares /\ c.claimed = w.claimed
               /\ w.owed = 0 => c.state = "Settled" /\ c.realised = 0
               /\ w.owed # 0 => c.state = "Unbonding" /\ c.realised = w.realised
  BY DEF AWindow, UnbondWindow, Close

(* The open leg moves in flight with its window, and nothing else changes: *)
(* the claims on it are unpaid and the new window has none.                *)
LEMMA ClosingKeepsBooks ==
    ASSUME NEW set, NEW t \in TotalsCache, NEW ws, NEW cl,
           Shaped(ws, nextWindowId, cl), openWindow = nextWindowId - 1,
           Books(t, ws, openWindow, cl)
    PROVE  LET r == CloseOpenWindow(set, t, ws)
           IN  /\ Books(r.totals, r.windows, r.open, cl)
               /\ OutstandingOf(r.windows, In(r.windows, "Matured")) =
                    OutstandingOf(ws, In(ws, "Matured"))
  <1> DEFINE w     == ws[openWindow]
             legs  == PlanUndelegation(set, w.owed, EntryCeiling)
             c     == Close([w EXCEPT !.used = UsedBy(set, legs)],
                            now, UnbondingPeriod)
             fresh == WindowOpen(now, WindowLength)
             new   == [id \in 0 .. nextWindowId |->
                         CASE id = nextWindowId -> fresh
                           [] id = openWindow   -> c
                           [] OTHER             -> ws[id]]
             moved == LiabilityInFlight(t, w.owed)
             r     == CloseOpenWindow(set, t, ws)
  <1>1. r.totals = moved /\ r.windows = new /\ r.open = nextWindowId
    BY DEF CloseOpenWindow
  <1>2. /\ nextWindowId \in Nat \ {0} /\ openWindow \in DOMAIN ws
        /\ DOMAIN ws = 0 .. nextWindowId - 1 /\ w \in AWindow
        /\ w.state = "Open" /\ In(ws, "Open") = {openWindow}
    BY DEF Shaped, In
  <1>0. IsFiniteSet(DOMAIN ws) /\ \A x \in DOMAIN ws : ws[x] \in AWindow
    BY <1>2, ShapedNumbers
  <1>3. /\ c.owed = w.owed /\ c.shares = w.shares /\ c.claimed = w.claimed
        /\ w.owed = 0 => c.state = "Settled" /\ c.realised = 0
        /\ w.owed # 0 => c.state = "Unbonding" /\ c.realised = w.realised
    BY <1>2, ClosedFigures
  <1>4. /\ fresh.owed = 0 /\ fresh.shares = 0 /\ fresh.claimed = 0
        /\ fresh.state = "Open" /\ fresh.realised = None
    BY DEF WindowOpen
  <1> HIDE DEF c, fresh
  <1>5. /\ DOMAIN new = 0 .. nextWindowId /\ new[nextWindowId] = fresh
        /\ new[openWindow] = c
        /\ \A id \in DOMAIN ws \ {openWindow} : new[id] = ws[id]
        /\ DOMAIN new = DOMAIN ws \cup {nextWindowId}
        /\ nextWindowId \notin DOMAIN ws
    BY <1>2
  <1> HIDE DEF new, r
  <1>6. /\ In(new, "Matured") = In(ws, "Matured")
        /\ In(new, "Matured") \in SUBSET (DOMAIN ws \ {openWindow})
        /\ In(new, "Unbonding") = In(ws, "Unbonding") \cup
             (IF w.owed = 0 THEN {} ELSE {openWindow})
        /\ In(ws, "Unbonding") \in SUBSET (DOMAIN ws \ {openWindow})
    BY <1>2, <1>3, <1>4, <1>5 DEF In
  <1>7. OutstandingOf(new, In(new, "Matured")) = OutstandingOf(ws, In(ws, "Matured"))
    <2> DEFINE S == In(ws, "Matured")
    <2>1. S \subseteq DOMAIN ws /\ S \subseteq DOMAIN new
      BY <1>5, <1>6
    <2>2. \A id \in S : Outstanding(new[id]) = Outstanding(ws[id])
      BY <1>5, <1>6
    <2>3. IsFiniteSet(S)
      BY <1>0, <2>1, FS_Subset
    <2> HIDE DEF S
    <2>4. OutstandingOf(new, S) = OutstandingOf(ws, S)
      BY <2>1, <2>2, <2>3, SameOutstanding
    <2> QED BY <1>6, <2>4 DEF S
  <1>8. OwedIn(new, In(new, "Unbonding")) = OwedIn(ws, In(ws, "Unbonding")) + w.owed
    <2> DEFINE S == In(ws, "Unbonding")
    <2>1. S \subseteq DOMAIN ws /\ S \subseteq DOMAIN new /\ openWindow \notin S
          /\ openWindow \in DOMAIN new
      BY <1>2, <1>5, <1>6
    <2>2. \A id \in S \cup {openWindow} : new[id].owed = ws[id].owed
      BY <1>3, <1>5, <1>6
    <2>3. IsFiniteSet(S) /\ IsFiniteSet(S \cup {openWindow})
      BY <1>0, <2>1, FS_Subset, FS_AddElement
    <2> HIDE DEF S
    <2>4. OwedIn(new, S) = OwedIn(ws, S) /\ OwedIn(ws, S) \in Nat
      BY <1>0, <2>1, <2>2, <2>3, SameOwed, SumsNat
    <2>5. OwedIn(new, S \cup {openWindow}) = OwedIn(ws, S \cup {openWindow})
      BY <1>2, <2>1, <2>2, <2>3, SameOwed
    <2>6. OwedIn(ws, S \cup {openWindow}) = OwedIn(ws, S) + w.owed
      BY <1>0, <1>2, <2>1, <2>3, WindowAdded
    <2>7. CASE w.owed = 0
      BY <1>6, <2>4, <2>7 DEF S
    <2>8. CASE w.owed # 0
      BY <1>6, <2>5, <2>6, <2>8 DEF S
    <2> QED BY <2>7, <2>8
  <1>9. LegsMatch(moved, new, nextWindowId)
    <2>1. /\ t.owedOpen = w.owed /\ t.owedUnbonding = OwedIn(ws, In(ws, "Unbonding"))
          /\ t.owedMatured = OutstandingOf(ws, In(ws, "Matured"))
      BY DEF Books, LegsMatch
    <2>2. t.owedOpen \in Nat /\ t.owedUnbonding \in Nat
      BY TotalsFields
    <2>3. /\ moved.owedOpen = 0 /\ moved.owedUnbonding = t.owedUnbonding + w.owed
          /\ moved.owedMatured = t.owedMatured
      BY <2>1, <2>2 DEF LiabilityInFlight, SatSub, TotalsCache
    <2> QED BY <1>4, <1>5, <1>7, <1>8, <2>1, <2>3 DEF LegsMatch
  <1>10. RealisedLate(new)
    <2>1. w.realised = None
      BY <1>2 DEF Books, RealisedLate
    <2>2. c.realised = None <=> c.state \in {"Open", "Unbonding"}
      <3>1. None # 0
        BY NoneIsNotAnAmount
      <3>2. CASE w.owed = 0
        BY <1>3, <3>1, <3>2
      <3>3. CASE w.owed # 0
        BY <1>3, <2>1, <3>3
      <3> QED BY <3>2, <3>3
    <2>3. ASSUME NEW id \in DOMAIN new
          PROVE  new[id].realised = None <=> new[id].state \in {"Open", "Unbonding"}
      <3>1. CASE id \in DOMAIN ws \ {openWindow}
        BY <1>5, <3>1 DEF Books, RealisedLate
      <3>2. CASE id \notin DOMAIN ws \ {openWindow}
        BY <1>2, <1>4, <1>5, <2>2, <3>2
      <3> QED BY <3>1, <3>2
    <2> QED BY <2>3 DEF RealisedLate
  <1>11. ASSUME NEW id \in DOMAIN new PROVE ClaimsAgree(new, cl, id)
    <2>1. CASE id \in DOMAIN ws \ {openWindow}
      BY <1>5, <2>1, SameAccounts DEF Books
    <2>2. CASE id = openWindow
      <3>1. \A u \in Users : id \in DOMAIN cl[u] => ~cl[u][id].claimed
        BY <1>2, <2>2 DEF Books, PaidLate
      <3> QED BY <1>2, <1>3, <1>5, <2>2, <3>1, SameAccounts DEF Books
    <2>3. CASE id = nextWindowId
      <3>1. \A u \in Users : id \notin DOMAIN cl[u]
        BY <1>2, <1>5, <2>3 DEF Shaped
      <3> QED BY <1>4, <1>5, <2>3, <3>1, NoAccounts
    <2> QED BY <1>5, <2>1, <2>2, <2>3
  <1>12. PaidLate(new, cl)
    <2>1. ASSUME NEW u \in Users, NEW id \in DOMAIN cl[u], cl[u][id].claimed
          PROVE  new[id].state \in {"Matured", "Settled"}
      <3>1. id \in DOMAIN ws /\ ws[id].state \in {"Matured", "Settled"}
        BY <1>2, <2>1 DEF Shaped, Books, PaidLate
      <3> QED BY <1>2, <1>5, <3>1
    <2> QED BY <2>1 DEF PaidLate
  <1>13. Books(moved, new, nextWindowId, cl)
    BY <1>9, <1>10, <1>11, <1>12 DEF Books
  <1> QED BY <1>1, <1>7, <1>13 DEF r

-----------------------------------------------------------------------------
(* A ledger one of whose entries grows.                                    *)
LEMMA SumGrows ==
    ASSUME NEW T, IsFiniteSet(T), NEW f, \A y \in T : f[y] \in Nat,
           NEW e \in T, NEW x \in Nat, NEW h, h[e] = f[e] + x,
           \A y \in T \ {e} : h[y] = f[y]
    PROVE  SumFunctionOnSet(h, T) = SumFunctionOnSet(f, T) + x
  <1> DEFINE r == T \ {e}
  <1>1. IsFiniteSet(r)
    BY FS_Subset
  <1>2. (\A y \in T : f[y] \in Int) /\ (\A y \in T : h[y] \in Int) /\ f[e] \in Nat
    OBVIOUS
  <1>3. SumFunctionOnSet(h, r) = SumFunctionOnSet(f, r)
    BY <1>1, SumExt
  <1>4. SumFunctionOnSet(h, T) = h[e] + SumFunctionOnSet(h, r)
    BY <1>2, SumElement
  <1>5. SumFunctionOnSet(f, T) = f[e] + SumFunctionOnSet(f, r)
        /\ SumFunctionOnSet(f, r) \in Int
    BY <1>2, SumElement
  <1> QED BY <1>2, <1>3, <1>4, <1>5

(* The newest of the windows is the open one.                              *)
LEMMA OpenWindowShaped ==
    ASSUME Shaped(windows, nextWindowId, claims), openWindow = nextWindowId - 1
    PROVE  /\ nextWindowId \in Nat \ {0} /\ openWindow \in DOMAIN windows
           /\ DOMAIN windows = 0 .. nextWindowId - 1
           /\ windows[openWindow] \in AWindow
           /\ IsFiniteSet(DOMAIN windows)
           /\ \A x \in DOMAIN windows : windows[x] \in AWindow
           /\ windows[openWindow].state = "Open"
           /\ In(windows, "Open") = {openWindow}
  BY ShapedNumbers DEF Shaped, In

(* record_claim: the open window, its leg and the account's claim grow by  *)
(* the same amount.                                                        *)
LEMMA JoiningKeepsBooks ==
    ASSUME Shaped(windows, nextWindowId, claims), DOMAIN claims = Users,
           openWindow = nextWindowId - 1, totals \in TotalsCache,
           Books(totals, windows, openWindow, claims),
           NEW u \in Users, NEW shares \in Nat, NEW owed \in Nat,
           NEW t, t.owedOpen = totals.owedOpen + owed,
           t.owedUnbonding = totals.owedUnbonding,
           t.owedMatured = totals.owedMatured,
           NEW ws, DOMAIN ws = DOMAIN windows,
           ws = [id \in DOMAIN windows |-> ws[id]],
           \A id \in DOMAIN windows \ {openWindow} : ws[id] = windows[id],
           NEW j \in AWindow, ws[openWindow] = j,
           j.owed = windows[openWindow].owed + owed,
           j.shares = windows[openWindow].shares + shares,
           j.claimed = windows[openWindow].claimed,
           j.state = windows[openWindow].state,
           j.realised = windows[openWindow].realised,
           NEW cl, DOMAIN cl = Users,
           cl[u] = RecordClaim(u, openWindow, shares, owed),
           \A x \in Users \ {u} : cl[x] = claims[x]
    PROVE  /\ Shaped(ws, nextWindowId, cl)
           /\ Books(t, ws, openWindow, cl)
           /\ OutstandingOf(ws, In(ws, "Matured")) =
                OutstandingOf(windows, In(windows, "Matured"))
  <1> DEFINE w  == windows[openWindow]
             c  == RecordClaim(u, openWindow, shares, owed)
  <1>1. /\ nextWindowId \in Nat \ {0} /\ openWindow \in DOMAIN windows
        /\ DOMAIN windows = 0 .. nextWindowId - 1 /\ w \in AWindow
        /\ IsFiniteSet(DOMAIN windows)
        /\ \A x \in DOMAIN windows : windows[x] \in AWindow
        /\ w.state = "Open" /\ In(windows, "Open") = {openWindow}
    BY OpenWindowShaped
  <1>2. w.owed \in Nat /\ w.shares \in Nat
    BY <1>1, WindowFields
  <1>3. /\ j \in AWindow /\ j.owed = w.owed + owed /\ j.shares = w.shares + shares
        /\ j.claimed = w.claimed /\ j.state = "Open" /\ j.realised = w.realised
    BY <1>1
  <1>4. /\ DOMAIN ws = DOMAIN windows /\ ws[openWindow] = j
        /\ \A id \in DOMAIN windows \ {openWindow} : ws[id] = windows[id]
        /\ ws = [id \in DOMAIN windows |-> ws[id]]
    OBVIOUS
  <1>6. /\ DOMAIN cl = Users /\ cl[u] = c
        /\ \A x \in Users \ {u} : cl[x] = claims[x]
    OBVIOUS
  <1>7. /\ DOMAIN c = DOMAIN claims[u] \cup {openWindow}
        /\ \A id \in DOMAIN claims[u] \ {openWindow} : c[id] = claims[u][id]
    BY DEF RecordClaim
  <1>8. /\ c[openWindow] \in ClaimRecord /\ c[openWindow].claimed = FALSE
        /\ c[openWindow].owed = OwedTo(claims, openWindow)[u] + owed
        /\ c[openWindow].shares = BurnedBy(claims, openWindow)[u] + shares
    <2>1. CASE openWindow \in DOMAIN claims[u]
      <3>1. PICK k \in ClaimRecord : k = claims[u][openWindow] /\ ~k.claimed
        BY <1>1, <2>1 DEF Shaped, Books, PaidLate
      <3>2. c[openWindow] = [k EXCEPT !.shares = k.shares + shares,
                                      !.owed = k.owed + owed]
        BY <2>1, <3>1 DEF RecordClaim
      <3>3. k.owed = OwedTo(claims, openWindow)[u]
            /\ k.shares = BurnedBy(claims, openWindow)[u]
        BY <2>1, <3>1 DEF OwedTo, BurnedBy
      <3>4. k.claimed \in BOOLEAN
        BY <3>1 DEF ClaimRecord
      <3> HIDE DEF c
      <3>5. /\ c[openWindow] \in ClaimRecord /\ c[openWindow].claimed = k.claimed
            /\ c[openWindow].owed = k.owed + owed
            /\ c[openWindow].shares = k.shares + shares
        <4>1. PICK grown : grown = c[openWindow]
          OBVIOUS
        <4>2. grown = [k EXCEPT !.shares = k.shares + shares, !.owed = k.owed + owed]
          BY <3>2, <4>1, Zenon
        <4>3. /\ grown \in ClaimRecord /\ grown.owed = k.owed + owed
              /\ grown.shares = k.shares + shares /\ grown.claimed = k.claimed
          <5>1. k.owed + owed \in Nat /\ k.shares + shares \in Nat
            BY DEF ClaimRecord
          <5> QED BY <4>2, <5>1 DEF ClaimRecord
        <4> QED BY <4>1, <4>3
      <3> QED BY <3>1, <3>3, <3>4, <3>5
    <2>2. CASE openWindow \notin DOMAIN claims[u]
      <3>1. c[openWindow] = [shares |-> shares, owed |-> owed, claimed |-> FALSE]
        BY <2>2 DEF RecordClaim
      <3>2. OwedTo(claims, openWindow)[u] = 0 /\ BurnedBy(claims, openWindow)[u] = 0
        BY <2>2 DEF OwedTo, BurnedBy
      <3> HIDE DEF c
      <3> QED BY <3>1, <3>2 DEF ClaimRecord
    <2> QED BY <2>1, <2>2
  <1> HIDE DEF c
  <1>9. In(ws, "Open") = {openWindow} /\ In(ws, "Matured") = In(windows, "Matured")
        /\ In(ws, "Unbonding") = In(windows, "Unbonding")
        /\ openWindow \notin In(windows, "Matured")
        /\ openWindow \notin In(windows, "Unbonding")
    BY <1>1, <1>3, <1>4 DEF In
  <1>10. Shaped(ws, nextWindowId, cl)
    <2>1. ws \in [0 .. nextWindowId - 1 -> AWindow]
      BY <1>1, <1>3, <1>4
    <2>2. ASSUME NEW x \in Users
          PROVE  /\ DOMAIN cl[x] \in SUBSET (0 .. nextWindowId - 1)
                 /\ \A id \in DOMAIN cl[x] : cl[x][id] \in ClaimRecord
      <3>1. /\ DOMAIN claims[x] \in SUBSET (0 .. nextWindowId - 1)
            /\ \A id \in DOMAIN claims[x] : claims[x][id] \in ClaimRecord
        BY DEF Shaped
      <3>2. CASE x = u
        BY <1>1, <1>6, <1>7, <1>8, <3>1, <3>2
      <3>3. CASE x # u
        BY <1>6, <3>1, <3>3
      <3> QED BY <3>2, <3>3
    <2> QED BY <1>1, <1>9, <2>1, <2>2 DEF Shaped
  <1>11. OutstandingOf(ws, In(ws, "Matured")) = OutstandingOf(windows, In(windows, "Matured"))
    <2> DEFINE S == In(windows, "Matured")
    <2>1. /\ S \subseteq DOMAIN windows /\ S \subseteq DOMAIN ws
          /\ \A id \in S : ws[id] = windows[id]
      BY <1>4, <1>9 DEF In
    <2>2. IsFiniteSet(S) /\ \A id \in S : Outstanding(ws[id]) = Outstanding(windows[id])
      BY <1>1, <2>1, FS_Subset
    <2> HIDE DEF S
    <2>3. OutstandingOf(ws, S) = OutstandingOf(windows, S)
      BY <2>1, <2>2, SameOutstanding
    <2> QED BY <1>9, <2>3 DEF S
  <1>12. OwedIn(ws, In(ws, "Unbonding")) = OwedIn(windows, In(windows, "Unbonding"))
    <2> DEFINE S == In(windows, "Unbonding")
    <2>1. /\ S \subseteq DOMAIN windows /\ S \subseteq DOMAIN ws
          /\ \A id \in S : ws[id] = windows[id]
      BY <1>4, <1>9 DEF In
    <2>2. IsFiniteSet(S) /\ \A id \in S : ws[id].owed = windows[id].owed
      BY <1>1, <2>1, FS_Subset
    <2> HIDE DEF S
    <2>3. OwedIn(ws, S) = OwedIn(windows, S)
      BY <2>1, <2>2, SameOwed
    <2> QED BY <1>9, <2>3 DEF S
  <1>13. LegsMatch(t, ws, openWindow)
    BY <1>2, <1>3, <1>4, <1>11, <1>12 DEF Books, LegsMatch
  <1>14. RealisedLate(ws)
    BY <1>1, <1>3, <1>4 DEF Books, RealisedLate
  <1>15. ASSUME NEW id \in DOMAIN ws PROVE ClaimsAgree(ws, cl, id)
    <2>1. CASE id # openWindow
      <3>1. ws[id] = windows[id] /\ id \in DOMAIN windows
        BY <1>4, <2>1
      <3>2. \A x \in Users : /\ (id \in DOMAIN cl[x]) <=> (id \in DOMAIN claims[x])
                             /\ id \in DOMAIN cl[x] => cl[x][id] = claims[x][id]
        BY <1>6, <1>7, <2>1
      <3>3. /\ OwedTo(cl, id) = OwedTo(claims, id)
            /\ BurnedBy(cl, id) = BurnedBy(claims, id)
            /\ ReceivedBy(ws, cl, id) = ReceivedBy(windows, claims, id)
        BY <3>1, <3>2 DEF OwedTo, BurnedBy, ReceivedBy
      <3>4. ClaimsAgree(windows, claims, id)
        BY <3>1 DEF Books
      <3> QED BY <3>1, <3>3, <3>4 DEF ClaimsAgree
    <2>2. CASE id = openWindow
      <3> DEFINE f == OwedTo(claims, id)
                 b == BurnedBy(claims, id)
                 p == ReceivedBy(windows, claims, id)
      <3>1. f \in [Users -> Nat] /\ b \in [Users -> Nat]
        BY <1>1, <2>2, ShapedNumbers
      <3>2. \A x \in Users : f[x] \in Nat /\ b[x] \in Nat
        BY <3>1
      <3>3. /\ OwedTo(cl, id)[u] = f[u] + owed
            /\ \A x \in Users \ {u} : OwedTo(cl, id)[x] = f[x]
        BY <1>6, <1>7, <1>8, <2>2 DEF OwedTo
      <3>4. /\ BurnedBy(cl, id)[u] = b[u] + shares
            /\ \A x \in Users \ {u} : BurnedBy(cl, id)[x] = b[x]
        BY <1>6, <1>7, <1>8, <2>2 DEF BurnedBy
      <3>5. ReceivedBy(ws, cl, id) = p
        <4>1. \A x \in Users : id \in DOMAIN claims[x] => ~claims[x][id].claimed
          BY <1>1, <2>2 DEF Books, PaidLate
        <4>2. \A x \in Users : id \in DOMAIN cl[x] => ~cl[x][id].claimed
          BY <1>6, <1>7, <1>8, <2>2, <4>1
        <4> QED BY <4>1, <4>2 DEF ReceivedBy
      <3>6. ClaimsAgree(windows, claims, id)
        BY <1>1, <2>2 DEF Books
      <3> HIDE DEF f, b, p
      <3>7. /\ SumFunctionOnSet(OwedTo(cl, id), Users)
                 = SumFunctionOnSet(f, Users) + owed
            /\ SumFunctionOnSet(BurnedBy(cl, id), Users)
                 = SumFunctionOnSet(b, Users) + shares
        BY <3>2, <3>3, <3>4, FiniteConstants, SumGrows
      <3>8. /\ SumFunctionOnSet(f, Users) = w.owed
            /\ SumFunctionOnSet(b, Users) = w.shares
            /\ SumFunctionOnSet(p, Users) = w.claimed
        BY <2>2, <3>6 DEF ClaimsAgree, f, b, p
      <3>9. /\ SumFunctionOnSet(OwedTo(cl, id), Users) = w.owed + owed
            /\ SumFunctionOnSet(BurnedBy(cl, id), Users) = w.shares + shares
            /\ SumFunctionOnSet(ReceivedBy(ws, cl, id), Users) = w.claimed
        BY <3>5, <3>7, <3>8
      <3> QED BY <1>3, <1>4, <2>2, <3>9 DEF ClaimsAgree
    <2> QED BY <2>1, <2>2
  <1>16. PaidLate(ws, cl)
    <2>1. ASSUME NEW x \in Users, NEW id \in DOMAIN cl[x], cl[x][id].claimed
          PROVE  ws[id].state \in {"Matured", "Settled"}
      <3>1. /\ id \in DOMAIN claims[x] /\ claims[x][id].claimed
        BY <1>6, <1>7, <1>8, <2>1
      <3>2. id \in DOMAIN windows /\ windows[id].state \in {"Matured", "Settled"}
        BY <1>1, <3>1 DEF Shaped, Books, PaidLate
      <3> QED BY <1>1, <1>4, <3>2
    <2> QED BY <2>1 DEF PaidLate
  <1>17. Books(t, ws, openWindow, cl)
    BY <1>13, <1>14, <1>15, <1>16 DEF Books
  <1> QED BY <1>10, <1>11, <1>17

-----------------------------------------------------------------------------
(* mature_due_windows.                                                     *)

(* What maturing does to a window.                                         *)
LEMMA MaturedFigures ==
    ASSUME NEW w \in AWindow, NEW available \in Nat
    PROVE  LET m == Mature(w, available)
           IN  /\ m \in AWindow /\ m.owed = w.owed /\ m.shares = w.shares
               /\ m.claimed = w.claimed /\ m.state = "Matured"
               /\ m.realised \in Nat /\ m.realised <= w.owed
               /\ m.realised <= available /\ m.maturesAt = w.maturesAt
  <1>1. w.owed \in Nat
    BY WindowFields
  <1>2. PICK a \in Nat : a = Min2(w.owed, available) /\ a <= w.owed /\ a <= available
    BY <1>1 DEF Min2
  <1>3. Mature(w, available) = [w EXCEPT !.realised = a, !.state = "Matured"]
    BY <1>2, Zenon DEF Mature
  <1> QED BY <1>2, <1>3 DEF AWindow, UnbondWindow, WindowStates

(* What is left for a window is an amount.                                 *)
LEMMA AvailableNat ==
    ASSUME TypedQueue, balance \in Nat, NEW ids \in SUBSET WindowIds,
           NEW id \in WindowIds
    PROVE  Available(ids, id) \in Nat
  <1>1. SpokenFor \in Nat
    <2>1. {k \in active : windows[k].state = "Matured"} \in SUBSET WindowIds
      BY WindowsTyped
    <2>2. windows \in [WindowIds -> AWindow]
      BY WindowsTyped DEF TypedQueue, TypedWindows
    <2> QED BY <2>1, <2>2, OutstandingNat DEF SpokenFor
  <1>2. OwedOf({k \in ids : k < id}) \in Nat
    BY OwedNat
  <1>3. SatSub(balance, SpokenFor) \in Nat
    BY <1>1, SatSubNat
  <1> QED BY <1>2, <1>3, SatSubNat DEF Available

\* What the ledgers and the queue hold together before a step.
Consistent ==
    /\ TypeInv /\ ClaimInv
    /\ Books(totals, windows, openWindow, claims)
    /\ OutstandingOf(windows, In(windows, "Matured")) <= balance

(* The state has the shape the lemmas about ledgers ask for.               *)
LEMMA ConsistentShape ==
    ASSUME Consistent
    PROVE  /\ Shaped(windows, nextWindowId, claims) /\ TypedQueue
           /\ openWindow = nextWindowId - 1 /\ totals \in TotalsCache
           /\ balance \in Nat /\ DOMAIN claims = Users
           /\ WindowIds = DOMAIN windows /\ IsFiniteSet(WindowIds)
           /\ \A id \in WindowIds : windows[id] \in AWindow /\ id \in Int
           /\ openWindow \in WindowIds /\ windows[openWindow].state = "Open"
           /\ {id \in active : windows[id].state = "Matured"} = In(windows, "Matured")
           /\ DueWindows \subseteq In(windows, "Unbonding")
  <1>1. TypedParts /\ QueueInv
    BY PartsMakeTypeInv DEF Consistent, ClaimInv
  <1>2. /\ TypedQueue /\ TypedClaims /\ totals \in TotalsCache /\ balance \in Nat
        /\ nextWindowId \in Nat \ {0}
    BY <1>1 DEF TypedParts, TypedChain, QueueInv, WindowsNumbered
  <1>3. /\ WindowIds = 0 .. nextWindowId - 1 /\ IsFiniteSet(WindowIds)
        /\ \A id \in WindowIds : windows[id] \in AWindow
    BY <1>2, WindowsTyped
  <1>4. /\ openWindow = nextWindowId - 1 /\ In(windows, "Open") = {openWindow}
        /\ active = In(windows, "Unbonding") \cup In(windows, "Matured")
    BY <1>1 DEF QueueInv, QueueWellFormed, InState, In, WindowIds
  <1>5. Shaped(windows, nextWindowId, claims)
    BY <1>2, <1>3, <1>4 DEF Shaped, TypedQueue, TypedWindows, TypedClaims
  <1>6. {id \in active : windows[id].state = "Matured"} = In(windows, "Matured")
        /\ DueWindows \subseteq In(windows, "Unbonding")
    BY <1>4 DEF In, DueWindows, IsMature
  <1>7. openWindow \in WindowIds /\ windows[openWindow].state = "Open"
    BY <1>4 DEF In, WindowIds
  <1> QED BY <1>2, <1>3, <1>4, <1>5, <1>6, <1>7 DEF TypedClaims, WindowIds

(* Sums over two lists of windows with none in common.                     *)
LEMMA SumsSplit ==
    ASSUME NEW ws, NEW W, IsFiniteSet(W), W \subseteq DOMAIN ws, NEW T \in SUBSET W,
           \A x \in DOMAIN ws : ws[x] \in AWindow
    PROVE  /\ OwedIn(ws, W) = OwedIn(ws, T) + OwedIn(ws, W \ T)
           /\ OutstandingOf(ws, W) = OutstandingOf(ws, T) + OutstandingOf(ws, W \ T)
  <1> DEFINE f == [x \in DOMAIN ws |-> ws[x].owed]
             h == [x \in DOMAIN ws |-> Outstanding(ws[x])]
  <1>1. (\A x \in W : f[x] \in Nat) /\ (\A x \in W : h[x] \in Nat)
    BY WindowFields
  <1> HIDE DEF f, h
  <1>2. SumFunctionOnSet(f, W) = SumFunctionOnSet(f, T) + SumFunctionOnSet(f, W \ T)
    BY <1>1, SumSplit
  <1>3. SumFunctionOnSet(h, W) = SumFunctionOnSet(h, T) + SumFunctionOnSet(h, W \ T)
    BY <1>1, SumSplit
  <1> QED BY <1>2, <1>3 DEF OwedIn, OutstandingOf, f, h

(* What the collected windows are, and where they move.                    *)
LEMMA CollectedFigures ==
    ASSUME Consistent, NEW ids \in SUBSET DueWindows
    PROVE  LET ws == MaturedWindows(ids)
           IN  /\ DOMAIN ws = WindowIds
               /\ \A id \in WindowIds :
                    /\ ws[id] \in AWindow /\ ws[id].owed = windows[id].owed
                    /\ ws[id].shares = windows[id].shares
                    /\ ws[id].claimed = windows[id].claimed
                    /\ ws[id].maturesAt = windows[id].maturesAt
               /\ \A id \in WindowIds \ ids : ws[id] = windows[id]
               /\ \A id \in ids :
                    /\ id \in WindowIds /\ windows[id].state = "Unbonding"
                    /\ windows[id].realised = None
                    /\ ws[id].state = "Matured" /\ ws[id].realised \in Nat
                    /\ ws[id].realised <= ws[id].owed
                    /\ ws[id].realised <= Available(ids, id)
               /\ In(ws, "Open") = In(windows, "Open")
               /\ In(ws, "Unbonding") = In(windows, "Unbonding") \ ids
               /\ In(ws, "Matured") = In(windows, "Matured") \cup ids
  <1> DEFINE ws == MaturedWindows(ids)
  <1>1. /\ TypedQueue /\ balance \in Nat /\ ids \in SUBSET WindowIds
        /\ \A id \in WindowIds : windows[id] \in AWindow
        /\ \A id \in ids : windows[id].state = "Unbonding"
        /\ WindowIds = DOMAIN windows
    BY ConsistentShape DEF In
  <1>2. DOMAIN ws = WindowIds /\ \A id \in WindowIds \ ids : ws[id] = windows[id]
    BY DEF MaturedWindows
  <1>3. ASSUME NEW id \in ids
        PROVE  /\ id \in WindowIds /\ ws[id] \in AWindow
               /\ ws[id].owed = windows[id].owed /\ ws[id].shares = windows[id].shares
               /\ ws[id].claimed = windows[id].claimed
               /\ ws[id].maturesAt = windows[id].maturesAt
               /\ ws[id].state = "Matured" /\ ws[id].realised \in Nat
               /\ ws[id].realised <= ws[id].owed
               /\ ws[id].realised <= Available(ids, id)
    <2>1. Available(ids, id) \in Nat /\ id \in WindowIds
      BY <1>1, AvailableNat
    <2>2. ws[id] = Mature(windows[id], Available(ids, id))
      BY <2>1 DEF MaturedWindows
    <2>3. PICK w \in AWindow : w = windows[id]
      BY <1>1, <2>1
    <2>4. PICK m : m = Mature(w, Available(ids, id))
      OBVIOUS
    <2>5. /\ m \in AWindow /\ m.owed = w.owed /\ m.shares = w.shares
          /\ m.claimed = w.claimed /\ m.state = "Matured"
          /\ m.realised \in Nat /\ m.realised <= w.owed
          /\ m.realised <= Available(ids, id) /\ m.maturesAt = w.maturesAt
      BY <2>1, <2>4, MaturedFigures
    <2> HIDE DEF ws
    <2>6. ws[id] = m
      BY <2>2, <2>3, <2>4
    <2> QED BY <2>1, <2>3, <2>5, <2>6
  <1>4. \A id \in ids : windows[id].realised = None
    BY <1>1 DEF Consistent, Books, RealisedLate
  <1> HIDE DEF ws
  <1>5. /\ In(ws, "Open") = In(windows, "Open")
        /\ In(ws, "Unbonding") = In(windows, "Unbonding") \ ids
        /\ In(ws, "Matured") = In(windows, "Matured") \cup ids
    BY <1>1, <1>2, <1>3 DEF In
  <1>6. \A id \in WindowIds :
          /\ ws[id] \in AWindow /\ ws[id].owed = windows[id].owed
          /\ ws[id].shares = windows[id].shares
          /\ ws[id].claimed = windows[id].claimed
          /\ ws[id].maturesAt = windows[id].maturesAt
    BY <1>1, <1>2, <1>3
  <1> QED BY <1>1, <1>2, <1>3, <1>4, <1>5, <1>6 DEF ws

(* The collected windows together take no more than the balance has to     *)
(* spare (mature_due_windows: spoken_for grows by each in turn).           *)
LEMMA CollectedWithinBalance ==
    ASSUME Consistent, NEW ids \in SUBSET DueWindows
    PROVE  OutstandingOf(MaturedWindows(ids), ids) <= SatSub(balance, SpokenFor)
  <1> DEFINE ws == MaturedWindows(ids)
             f  == [id \in WindowIds |-> windows[id].owed]
             g  == [id \in DOMAIN ws |-> Outstanding(ws[id])]
             A  == SatSub(balance, SpokenFor)
  <1>1. /\ IsFiniteSet(WindowIds) /\ balance \in Nat /\ TypedQueue
        /\ \A id \in WindowIds : id \in Int
    BY ConsistentShape
  <1>2. /\ DOMAIN ws = WindowIds /\ ids \subseteq WindowIds
        /\ \A id \in WindowIds : ws[id] \in AWindow /\ ws[id].owed = windows[id].owed
        /\ \A id \in ids : /\ ws[id].realised \in Nat
                            /\ ws[id].realised <= ws[id].owed
                            /\ ws[id].realised <= Available(ids, id)
    BY CollectedFigures
  <1>3. SpokenFor \in Nat /\ A \in Nat
    <2>1. {k \in active : windows[k].state = "Matured"} \in SUBSET WindowIds
      BY <1>1, WindowsTyped
    <2>2. windows \in [WindowIds -> AWindow]
      BY <1>1, WindowsTyped DEF TypedQueue, TypedWindows
    <2>3. SpokenFor \in Nat
      BY <1>1, <2>1, <2>2, OutstandingNat DEF SpokenFor
    <2> QED BY <1>1, <2>3, SatSubNat
  <1> HIDE DEF ws
  <1>4. IsFiniteSet(ids) /\ \A id \in ids : id \in Int
    BY <1>1, <1>2, FS_Subset
  <1>5. ASSUME NEW id \in ids
        PROVE  /\ f[id] \in Nat /\ g[id] \in Nat /\ g[id] <= f[id]
               /\ g[id] <= Available(ids, id)
    <2>1. PICK w \in AWindow : w = ws[id]
      BY <1>2
    <2>2. /\ w.owed \in Nat /\ w.claimed \in Nat /\ w.realised \in Nat
          /\ f[id] = w.owed
          /\ w.realised <= w.owed /\ w.realised <= Available(ids, id)
      BY <1>2, <2>1, WindowFields
    <2>3. g[id] = SatSub(w.realised, w.claimed)
      <3>1. None # w.realised
        BY <2>2, NoneIsNotAnAmount
      <3> QED BY <1>2, <2>1, <3>1 DEF Outstanding, Payable
    <2>4. g[id] \in Nat /\ g[id] <= w.realised
      BY <2>2, <2>3, SatSubNat
    <2>5. Available(ids, id) \in Nat
      BY <1>1, <1>2, AvailableNat
    <2> HIDE DEF f, g
    <2> QED BY <2>2, <2>4, <2>5
  <1>6. ASSUME NEW id \in ids
        PROVE  \/ g[id] = 0
               \/ g[id] + SumFunctionOnSet(f, {k \in ids : k < id}) <= A
    <2>1. Available(ids, id) = SatSub(A, SumFunctionOnSet(f, {k \in ids : k < id}))
      BY DEF Available, OwedOf
    <2>2. SumFunctionOnSet(f, {k \in ids : k < id}) \in Nat
      <3>1. {k \in ids : k < id} \in SUBSET WindowIds
        BY <1>2
      <3> QED BY <1>1, <3>1, OwedNat DEF OwedOf
    <2>3. g[id] \in Nat /\ g[id] <= Available(ids, id)
      BY <1>5
    <2> HIDE DEF A, f, g
    <2> QED BY <1>3, <2>1, <2>2, <2>3 DEF SatSub
  <1> HIDE DEF A, f, g
  <1>7. SumFunctionOnSet(g, ids) <= A
    BY <1>3, <1>4, <1>5, <1>6, TakenInTurn
  <1> QED BY <1>7 DEF A, g, ws, OutstandingOf

(* mature_due_windows keeps the books and the money.                       *)
LEMMA CollectKeepsBooks ==
    ASSUME Consistent, NEW ids \in SUBSET DueWindows
    PROVE  LET ws == MaturedWindows(ids)
           IN  /\ Shaped(ws, nextWindowId, claims)
               /\ Books(LiabilityArrived(ids), ws, openWindow, claims)
               /\ OutstandingOf(ws, In(ws, "Matured")) <= balance
  <1> DEFINE ws == MaturedWindows(ids)
             M  == In(windows, "Matured")
             U  == In(windows, "Unbonding")
             t  == LiabilityArrived(ids)
  <1>1. /\ Shaped(windows, nextWindowId, claims) /\ IsFiniteSet(WindowIds)
        /\ totals \in TotalsCache /\ balance \in Nat /\ openWindow \in WindowIds
        /\ windows[openWindow].state = "Open" /\ WindowIds = DOMAIN windows
        /\ \A id \in WindowIds : windows[id] \in AWindow
        /\ {id \in active : windows[id].state = "Matured"} = M
        /\ Books(totals, windows, openWindow, claims)
        /\ OutstandingOf(windows, M) <= balance
    BY ConsistentShape DEF Consistent
  <1>2. /\ DOMAIN ws = WindowIds
        /\ \A id \in WindowIds :
             /\ ws[id] \in AWindow /\ ws[id].owed = windows[id].owed
             /\ ws[id].shares = windows[id].shares
             /\ ws[id].claimed = windows[id].claimed
        /\ \A id \in WindowIds \ ids : ws[id] = windows[id]
        /\ \A id \in ids :
             /\ id \in WindowIds /\ windows[id].state = "Unbonding"
             /\ ws[id].state = "Matured"
             /\ ws[id].realised \in Nat
        /\ In(ws, "Open") = In(windows, "Open")
        /\ In(ws, "Unbonding") = U \ ids
        /\ In(ws, "Matured") = M \cup ids
    BY CollectedFigures
  <1>3. /\ M \subseteq WindowIds /\ U \subseteq WindowIds /\ ids \subseteq U
        /\ M \cap ids = {} /\ IsFiniteSet(M) /\ IsFiniteSet(U) /\ IsFiniteSet(ids)
        /\ openWindow \notin ids
    <2>1. M \subseteq WindowIds /\ U \subseteq WindowIds /\ ids \subseteq U
          /\ M \cap ids = {} /\ openWindow \notin ids
      BY <1>1, <1>2 DEF In
    <2> QED BY <1>1, <2>1, FS_Subset
  <1>4. ws \in [0 .. nextWindowId - 1 -> AWindow]
    <2>1. WindowIds = 0 .. nextWindowId - 1
      BY <1>1 DEF Shaped
    <2>2. ws = [id \in WindowIds |-> ws[id]]
      BY DEF MaturedWindows
    <2> HIDE DEF ws
    <2> QED BY <1>2, <2>1, <2>2
  <1>5. Shaped(ws, nextWindowId, claims)
    BY <1>1, <1>2, <1>4 DEF Shaped
  <1>6. totals.owedOpen = windows[openWindow].owed /\ t.owedOpen = totals.owedOpen
        /\ ws[openWindow] = windows[openWindow]
    BY <1>1, <1>2, <1>3 DEF Books, LegsMatch, LiabilityArrived, TotalsCache
  <1>7. t.owedUnbonding = OwedIn(ws, U \ ids)
    <2>1. totals.owedUnbonding = OwedIn(windows, U)
      BY <1>1 DEF Books, LegsMatch
    <2>2. t.owedUnbonding = SatSub(OwedIn(windows, U), OwedIn(windows, ids))
      BY <1>1, <2>1 DEF LiabilityArrived, TotalsCache, OwedOf, OwedIn
    <2>3. OwedIn(windows, U) = OwedIn(windows, ids) + OwedIn(windows, U \ ids)
      BY <1>1, <1>3, SumsSplit
    <2>4. IsFiniteSet(U \ ids)
      BY <1>3, FS_Subset
    <2>5. OwedIn(windows, U \ ids) \in Nat /\ OwedIn(windows, ids) \in Nat
      BY <1>1, <1>3, <2>4, SumsNat
    <2>6. t.owedUnbonding = OwedIn(windows, U \ ids)
      <3> HIDE DEF U, t
      <3> QED BY <2>2, <2>3, <2>5 DEF SatSub
    <2>7. U \ ids \subseteq DOMAIN windows /\ U \ ids \subseteq DOMAIN ws
          /\ \A id \in U \ ids : ws[id].owed = windows[id].owed
      BY <1>1, <1>2, <1>3
    <2> HIDE DEF ws, U, t
    <2>8. OwedIn(ws, U \ ids) = OwedIn(windows, U \ ids)
      BY <2>4, <2>7, SameOwed
    <2> QED BY <2>6, <2>8
  <1>8. /\ OutstandingOf(ws, M \cup ids)
             = OutstandingOf(windows, M) + OutstandingOf(ws, ids)
        /\ OutstandingOf(windows, M) \in Nat /\ OutstandingOf(ws, ids) \in Nat
    <2>1. /\ IsFiniteSet(M \cup ids) /\ (M \cup ids) \ ids = M
          /\ M \cup ids \subseteq DOMAIN ws /\ ids \in SUBSET (M \cup ids)
          /\ \A x \in DOMAIN ws : ws[x] \in AWindow
      <3>1. IsFiniteSet(M \cup ids)
        BY <1>3, FS_Union
      <3> QED BY <1>2, <1>3, <3>1
    <2>2. OutstandingOf(ws, M \cup ids)
            = OutstandingOf(ws, ids) + OutstandingOf(ws, (M \cup ids) \ ids)
      <3> HIDE DEF ws, M
      <3> QED BY <2>1, SumsSplit
    <2>3. M \subseteq DOMAIN windows /\ M \subseteq DOMAIN ws
          /\ \A id \in M : Outstanding(ws[id]) = Outstanding(windows[id])
      BY <1>1, <1>2, <1>3
    <2>4. OutstandingOf(ws, M) = OutstandingOf(windows, M)
      <3> HIDE DEF ws, M
      <3> QED BY <1>3, <2>3, SameOutstanding
    <2>5. OutstandingOf(windows, M) \in Nat
      BY <1>1, <1>3, SumsNat
    <2>6. OutstandingOf(ws, ids) \in Nat
      <3>1. ids \subseteq DOMAIN ws
        BY <1>2
      <3> HIDE DEF ws
      <3> QED BY <1>3, <2>1, <3>1, SumsNat
    <2> HIDE DEF ws, M
    <2>7. OutstandingOf(ws, (M \cup ids) \ ids) = OutstandingOf(windows, M)
      BY <2>1, <2>4, Zenon
    <2> HIDE DEF t, U
    <2> QED BY <2>2, <2>5, <2>6, <2>7
  <1>9. t.owedMatured = OutstandingOf(ws, M \cup ids)
    <2>1. totals.owedMatured = OutstandingOf(windows, M)
      BY <1>1 DEF Books, LegsMatch
    <2>2. t.owedMatured = totals.owedMatured + OutstandingOf(ws, ids)
      BY <1>1 DEF LiabilityArrived, TotalsCache
    <2> QED BY <1>8, <2>1, <2>2
  <1>10. LegsMatch(t, ws, openWindow)
    <2> HIDE DEF ws, t, M, U
    <2> QED BY <1>2, <1>6, <1>7, <1>9 DEF LegsMatch
  <1>11. RealisedLate(ws)
    <2> HIDE DEF ws
    <2> QED BY <1>1, <1>2, NoneIsNotAnAmount DEF Books, RealisedLate
  <1>12. ASSUME NEW id \in DOMAIN ws PROVE ClaimsAgree(ws, claims, id)
    <2>1. ClaimsAgree(windows, claims, id) /\ id \in WindowIds
      BY <1>1, <1>2 DEF Books
    <2>2. \/ \A u \in Users : id \in DOMAIN claims[u] => ~claims[u][id].claimed
          \/ Payable(ws[id]) = Payable(windows[id])
      <3>1. CASE id \in ids
        <4>1. windows[id].state = "Unbonding"
          BY <1>2, <3>1
        <4> QED BY <1>1, <4>1 DEF Books, PaidLate
      <3>2. CASE id \notin ids
        BY <1>2, <2>1, <3>2
      <3> QED BY <3>1, <3>2
    <2> HIDE DEF ws
    <2> QED BY <1>2, <2>1, <2>2, SameAccounts
  <1>13. PaidLate(ws, claims)
    <2> HIDE DEF ws
    <2>1. ASSUME NEW u \in Users, NEW id \in DOMAIN claims[u], claims[u][id].claimed
          PROVE  ws[id].state \in {"Matured", "Settled"}
      <3>1. id \in WindowIds /\ windows[id].state \in {"Matured", "Settled"}
        BY <1>1, <2>1 DEF Books, PaidLate, Shaped
      <3> QED BY <1>2, <3>1
    <2> QED BY <2>1 DEF PaidLate
  <1>14. Books(t, ws, openWindow, claims)
    BY <1>10, <1>11, <1>12, <1>13 DEF Books
  <1>15. OutstandingOf(ws, M \cup ids) <= balance
    <2>1. OutstandingOf(ws, ids) <= SatSub(balance, OutstandingOf(windows, M))
      BY <1>1, CollectedWithinBalance DEF SpokenFor
    <2> HIDE DEF ws, M
    <2> QED BY <1>1, <1>8, <2>1 DEF SatSub
  <1> QED BY <1>2, <1>5, <1>14, <1>15

-----------------------------------------------------------------------------
(* execute_claim_matured.                                                  *)

(* A claim paid out of its window.                                         *)
LEMMA PaidFigures ==
    ASSUME NEW w \in AWindow, NEW payout \in Nat, w.state = "Matured"
    PROVE  LET p == PaidWindow(w, payout)
           IN  /\ p \in AWindow /\ p.owed = w.owed /\ p.shares = w.shares
               /\ p.realised = w.realised /\ Payable(p) = Payable(w)
               /\ p.claimed = w.claimed + payout /\ p.maturesAt = w.maturesAt
               /\ p.state \in {"Matured", "Settled"}
               /\ p.state = "Settled" => Outstanding(p) = 0
  <1> DEFINE n == w.claimed + payout
             q == [w EXCEPT !.claimed = n]
  <1>1. n \in Nat /\ Payable(w) \in Nat
    BY WindowFields
  <1>2. /\ q \in AWindow /\ q.owed = w.owed /\ q.shares = w.shares
        /\ q.realised = w.realised /\ q.claimed = n /\ q.maturesAt = w.maturesAt
        /\ q.state = "Matured"
    BY <1>1 DEF AWindow, UnbondWindow
  <1>3. PaidWindow(w, payout) =
          IF IsDrained(q) THEN [q EXCEPT !.state = "Settled"] ELSE q
    BY DEF PaidWindow
  <1> HIDE DEF q
  <1>4. Payable(q) = Payable(w)
    BY <1>2 DEF Payable
  <1>5. CASE IsDrained(q)
    <2>1. PICK p : p = [q EXCEPT !.state = "Settled"]
      OBVIOUS
    <2>2. /\ p \in AWindow /\ p.owed = q.owed /\ p.shares = q.shares
          /\ p.realised = q.realised /\ p.claimed = q.claimed
          /\ p.maturesAt = q.maturesAt /\ p.state = "Settled"
      BY <1>2, <2>1 DEF AWindow, UnbondWindow, WindowStates
    <2>3. Payable(p) = Payable(w) /\ p.claimed >= Payable(w)
      BY <1>2, <1>4, <1>5, <2>2 DEF Payable, IsDrained
    <2>4. Outstanding(p) = 0
      <3> HIDE DEF n
      <3> QED BY <1>1, <1>2, <2>2, <2>3 DEF Outstanding, SatSub
    <2>5. PaidWindow(w, payout) = p
      BY <1>3, <1>5, <2>1
    <2> QED BY <1>2, <2>2, <2>3, <2>4, <2>5
  <1>6. CASE ~IsDrained(q)
    BY <1>2, <1>3, <1>4, <1>6
  <1> QED BY <1>5, <1>6

(* What the paid windows and the paid claims are.                          *)
LEMMA ClaimedFigures ==
    ASSUME Consistent, NEW u \in Users, NEW ids
    PROVE  LET at == WindowsAtClaim
               ws == WindowsAfterClaim(u, ids)
               P  == Paying(u, ids)
           IN  /\ DOMAIN at = WindowIds /\ DOMAIN ws = WindowIds
               /\ P \subseteq DOMAIN claims[u] /\ P \subseteq In(at, "Matured")
               /\ \A id \in P : ~claims[u][id].claimed
               /\ \A id \in WindowIds \ P : ws[id] = at[id]
               /\ \A id \in P :
                    /\ PayoutAt(u, id) \in Nat
                    /\ ws[id].claimed = at[id].claimed + PayoutAt(u, id)
                    /\ ws[id].state \in {"Matured", "Settled"}
                    /\ ws[id].state = "Settled" => Outstanding(ws[id]) = 0
               /\ \A id \in WindowIds :
                    /\ at[id] \in AWindow /\ ws[id] \in AWindow
                    /\ ws[id].owed = at[id].owed /\ ws[id].shares = at[id].shares
                    /\ ws[id].realised = at[id].realised
                    /\ ws[id].maturesAt = at[id].maturesAt
                    /\ Payable(ws[id]) = Payable(at[id])
  <1> DEFINE at == WindowsAtClaim
             ws == WindowsAfterClaim(u, ids)
             P  == Paying(u, ids)
  <1>1. /\ DOMAIN at = WindowIds /\ \A id \in WindowIds : at[id] \in AWindow
    BY CollectedFigures DEF WindowsAtClaim
  <1>2. /\ DOMAIN claims[u] \subseteq WindowIds
        /\ \A id \in DOMAIN claims[u] : claims[u][id] \in ClaimRecord
    <2>1. Shaped(windows, nextWindowId, claims) /\ WindowIds = DOMAIN windows
      BY ConsistentShape
    <2> QED BY <2>1 DEF Shaped
  <1>3. /\ P \subseteq DOMAIN claims[u] /\ \A id \in P : ~claims[u][id].claimed
        /\ \A id \in P : at[id].state = "Matured"
    BY DEF Paying, Unpaid
  <1>4. P \subseteq In(at, "Matured")
    BY <1>1, <1>2, <1>3 DEF In
  <1>5. DOMAIN ws = WindowIds /\ \A id \in WindowIds \ P : ws[id] = at[id]
    BY DEF WindowsAfterClaim
  <1>6. ASSUME NEW id \in P
        PROVE  /\ PayoutAt(u, id) \in Nat /\ ws[id] \in AWindow
               /\ ws[id].owed = at[id].owed /\ ws[id].shares = at[id].shares
               /\ ws[id].realised = at[id].realised
               /\ ws[id].maturesAt = at[id].maturesAt
               /\ Payable(ws[id]) = Payable(at[id])
               /\ ws[id].claimed = at[id].claimed + PayoutAt(u, id)
               /\ ws[id].state \in {"Matured", "Settled"}
               /\ ws[id].state = "Settled" => Outstanding(ws[id]) = 0
    <2>1. claims[u][id].owed \in Nat /\ id \in WindowIds
      BY <1>2, <1>3 DEF ClaimRecord
    <2>2. PayoutAt(u, id) \in Nat
      BY <1>1, <2>1, PayoutNat DEF PayoutAt
    <2>3. ws[id] = PaidWindow(at[id], PayoutAt(u, id))
      BY <2>1 DEF WindowsAfterClaim
    <2>4. PICK w \in AWindow : w = at[id] /\ w.state = "Matured"
      BY <1>1, <1>3, <2>1
    <2>5. PICK p : p = PaidWindow(w, PayoutAt(u, id))
      OBVIOUS
    <2>6. /\ p \in AWindow /\ p.owed = w.owed /\ p.shares = w.shares
          /\ p.realised = w.realised /\ Payable(p) = Payable(w)
          /\ p.claimed = w.claimed + PayoutAt(u, id) /\ p.maturesAt = w.maturesAt
          /\ p.state \in {"Matured", "Settled"}
          /\ p.state = "Settled" => Outstanding(p) = 0
      BY <2>2, <2>4, <2>5, PaidFigures
    <2> HIDE DEF ws, at
    <2>7. ws[id] = p
      BY <2>3, <2>4, <2>5
    <2> QED BY <2>2, <2>4, <2>6, <2>7
  <1> HIDE DEF at, ws, P
  <1>7. \A id \in WindowIds :
          /\ ws[id] \in AWindow
          /\ ws[id].owed = at[id].owed /\ ws[id].shares = at[id].shares
          /\ ws[id].realised = at[id].realised
          /\ ws[id].maturesAt = at[id].maturesAt
          /\ Payable(ws[id]) = Payable(at[id])
    BY <1>1, <1>5, <1>6
  <1> QED BY <1>1, <1>3, <1>4, <1>5, <1>6, <1>7 DEF at, ws, P

(* Every window still accounts for its claims: what the account is paid is *)
(* what its claim is worth, and its mark says so.                          *)
LEMMA PayingKeepsAccounts ==
    ASSUME Consistent, NEW u \in Users, NEW ids
    PROVE  LET ws == WindowsAfterClaim(u, ids)
               cl == [claims EXCEPT ![u] = ClaimsAfter(u, ids)]
           IN  /\ Shaped(ws, nextWindowId, cl)
               /\ \A id \in WindowIds : ClaimsAgree(ws, cl, id)
               /\ PaidLate(ws, cl) /\ RealisedLate(ws)
  <1> DEFINE at == WindowsAtClaim
             ws == WindowsAfterClaim(u, ids)
             P  == Paying(u, ids)
             c  == ClaimsAfter(u, ids)
             cl == [claims EXCEPT ![u] = c]
  <1>1. /\ DOMAIN at = WindowIds /\ DOMAIN ws = WindowIds
        /\ P \subseteq DOMAIN claims[u] /\ P \subseteq In(at, "Matured")
        /\ \A id \in P : ~claims[u][id].claimed
        /\ \A id \in WindowIds \ P : ws[id] = at[id]
        /\ \A id \in P :
             /\ PayoutAt(u, id) \in Nat
             /\ ws[id].claimed = at[id].claimed + PayoutAt(u, id)
             /\ ws[id].state \in {"Matured", "Settled"}
        /\ \A id \in WindowIds :
             /\ at[id] \in AWindow /\ ws[id] \in AWindow
             /\ ws[id].owed = at[id].owed /\ ws[id].shares = at[id].shares
             /\ ws[id].realised = at[id].realised
             /\ Payable(ws[id]) = Payable(at[id])
    BY ClaimedFigures
  <1>2. /\ Shaped(at, nextWindowId, claims) /\ RealisedLate(at) /\ PaidLate(at, claims)
        /\ \A id \in WindowIds : ClaimsAgree(at, claims, id)
    BY <1>1, CollectKeepsBooks DEF WindowsAtClaim, Books
  <1>3. DOMAIN claims = Users
    BY ConsistentShape
  <1>4. /\ DOMAIN c = DOMAIN claims[u]
        /\ \A id \in DOMAIN claims[u] \ P : c[id] = claims[u][id]
    BY DEF ClaimsAfter
  <1>5. ASSUME NEW id \in P
        PROVE  /\ c[id] \in ClaimRecord /\ c[id].claimed = TRUE
               /\ c[id].owed = claims[u][id].owed
               /\ c[id].shares = claims[u][id].shares
    <2>1. PICK k \in ClaimRecord : k = claims[u][id]
      BY <1>1, <1>2 DEF Shaped
    <2>2. c[id] = [k EXCEPT !.claimed = TRUE]
      BY <1>1, <2>1 DEF ClaimsAfter
    <2>3. PICK m : m = [k EXCEPT !.claimed = TRUE]
      OBVIOUS
    <2>4. m \in ClaimRecord /\ m.claimed = TRUE /\ m.owed = k.owed /\ m.shares = k.shares
      BY <2>3 DEF ClaimRecord
    <2> HIDE DEF c, P
    <2>5. c[id] = m
      BY <2>2, <2>3
    <2> QED BY <2>1, <2>4, <2>5
  <1>6. DOMAIN cl = Users /\ cl[u] = c /\ \A x \in Users \ {u} : cl[x] = claims[x]
    BY <1>3
  <1>7. \A id \in P : id \in WindowIds /\ at[id].state = "Matured"
    BY <1>1 DEF In
  <1> HIDE DEF at, ws, P, c, cl
  <1>8. ws \in [0 .. nextWindowId - 1 -> AWindow] /\ nextWindowId \in Nat \ {0}
        /\ In(ws, "Open") = In(at, "Open")
    <2>1. ws = [id \in WindowIds |-> ws[id]]
      BY DEF ws, WindowsAfterClaim
    <2>2. WindowIds = 0 .. nextWindowId - 1 /\ nextWindowId \in Nat \ {0}
      BY ConsistentShape DEF Shaped
    <2>3. ws \in [0 .. nextWindowId - 1 -> AWindow]
      BY <1>1, <2>1, <2>2
    <2>4. In(ws, "Open") = In(at, "Open")
      BY <1>1, <1>7 DEF In
    <2> QED BY <2>2, <2>3, <2>4
  <1>9. Shaped(ws, nextWindowId, cl)
    <2>1. ASSUME NEW x \in Users
          PROVE  /\ DOMAIN cl[x] \in SUBSET (0 .. nextWindowId - 1)
                 /\ \A id \in DOMAIN cl[x] : cl[x][id] \in ClaimRecord
      <3>1. /\ DOMAIN claims[x] \in SUBSET (0 .. nextWindowId - 1)
            /\ \A id \in DOMAIN claims[x] : claims[x][id] \in ClaimRecord
        BY <1>2 DEF Shaped
      <3>2. CASE x = u
        <4>1. DOMAIN cl[u] \in SUBSET (0 .. nextWindowId - 1)
          BY <1>4, <1>6, <3>1, <3>2
        <4>2. ASSUME NEW id \in DOMAIN cl[u] PROVE cl[u][id] \in ClaimRecord
          BY <1>4, <1>5, <1>6, <3>1, <3>2
        <4> QED BY <3>2, <4>1, <4>2
      <3>3. CASE x # u
        BY <1>6, <3>1, <3>3
      <3> QED BY <3>2, <3>3
    <2> QED BY <1>2, <1>8, <2>1 DEF Shaped
  <1>10. ASSUME NEW id \in WindowIds PROVE ClaimsAgree(ws, cl, id)
    <2> DEFINE f == OwedTo(claims, id)
               b == BurnedBy(claims, id)
               p == ReceivedBy(at, claims, id)
    <2>1. /\ f \in [Users -> Nat] /\ b \in [Users -> Nat] /\ p \in [Users -> Nat]
      BY <1>1, <1>2, ShapedNumbers
    <2>2. /\ SumFunctionOnSet(f, Users) = at[id].owed
          /\ SumFunctionOnSet(b, Users) = at[id].shares
          /\ SumFunctionOnSet(p, Users) = at[id].claimed
      BY <1>2 DEF ClaimsAgree
    <2>3. /\ OwedTo(cl, id) = f /\ BurnedBy(cl, id) = b
      <3>1. \A x \in Users : (id \in DOMAIN cl[x]) <=> (id \in DOMAIN claims[x])
        BY <1>4, <1>6
      <3>2. \A x \in Users : id \in DOMAIN claims[x] =>
              cl[x][id].owed = claims[x][id].owed /\ cl[x][id].shares = claims[x][id].shares
        BY <1>4, <1>5, <1>6
      <3> QED BY <3>1, <3>2 DEF OwedTo, BurnedBy
    <2>4. \A x \in Users \ {u} : ReceivedBy(ws, cl, id)[x] = p[x]
      BY <1>1, <1>6 DEF ReceivedBy, PayoutForClaim
    <2>5. CASE id \in P
      <3>1. p[u] = 0 /\ PayoutAt(u, id) \in Nat
        BY <1>1, <2>5 DEF ReceivedBy
      <3>2. ReceivedBy(ws, cl, id)[u] = PayoutAt(u, id)
        <4>1. /\ id \in DOMAIN cl[u] /\ cl[u][id].claimed
              /\ cl[u][id].owed = claims[u][id].owed
          BY <1>1, <1>4, <1>5, <1>6, <2>5
        <4>2. PayoutForClaim(ws[id], claims[u][id].owed)
                = PayoutForClaim(at[id], claims[u][id].owed)
          BY <1>1 DEF PayoutForClaim
        <4> QED BY <4>1, <4>2 DEF ReceivedBy, PayoutAt, at
      <3>3. ReceivedBy(ws, cl, id)[u] = p[u] + PayoutAt(u, id)
        BY <3>1, <3>2
      <3>4. \A x \in Users : p[x] \in Nat
        BY <2>1
      <3> HIDE DEF f, b, p
      <3>5. SumFunctionOnSet(ReceivedBy(ws, cl, id), Users)
              = SumFunctionOnSet(p, Users) + PayoutAt(u, id)
        BY <2>4, <3>1, <3>3, <3>4, FiniteConstants, SumGrows
      <3>6. /\ ws[id].claimed = at[id].claimed + PayoutAt(u, id)
            /\ ws[id].owed = at[id].owed /\ ws[id].shares = at[id].shares
        BY <1>1, <2>5
      <3> QED BY <2>2, <2>3, <3>5, <3>6 DEF ClaimsAgree
    <2>6. CASE id \notin P
      <3>1. ws[id] = at[id]
        BY <1>1, <2>6
      <3>2. \A x \in Users : /\ (id \in DOMAIN cl[x]) <=> (id \in DOMAIN claims[x])
                             /\ id \in DOMAIN cl[x] => cl[x][id] = claims[x][id]
        BY <1>4, <1>6, <2>6
      <3>3. ReceivedBy(ws, cl, id) = p
        BY <3>1, <3>2 DEF ReceivedBy
      <3> HIDE DEF f, b, p
      <3> QED BY <2>2, <2>3, <3>1, <3>3 DEF ClaimsAgree
    <2> QED BY <2>5, <2>6
  <1>11. PaidLate(ws, cl)
    <2>1. ASSUME NEW x \in Users, NEW id \in DOMAIN cl[x], cl[x][id].claimed
          PROVE  ws[id].state \in {"Matured", "Settled"}
      <3>1. CASE x = u /\ id \in P
        BY <1>1, <3>1
      <3>2. CASE ~(x = u /\ id \in P)
        <4>1. id \in DOMAIN claims[x] /\ claims[x][id].claimed
          BY <1>4, <1>6, <2>1, <3>2
        <4>2. at[id].state \in {"Matured", "Settled"} /\ id \in WindowIds
          BY <1>1, <1>2, <4>1 DEF PaidLate, Shaped
        <4> QED BY <1>1, <4>2
      <3> QED BY <3>1, <3>2
    <2> QED BY <2>1 DEF PaidLate
  <1>12. RealisedLate(ws)
    BY <1>1, <1>2, <1>7 DEF RealisedLate
  <1> QED BY <1>9, <1>10, <1>11, <1>12 DEF ws, cl, c

(* What the matured windows still had to pay is what they have to pay now  *)
(* and what was just paid: no window pays more than it has.                *)
LEMMA PaidFromMatured ==
    ASSUME Consistent, NEW u \in Users, NEW ids
    PROVE  LET at == WindowsAtClaim
               ws == WindowsAfterClaim(u, ids)
           IN  /\ OutstandingOf(at, In(at, "Matured")) =
                     OutstandingOf(ws, In(ws, "Matured")) + PaidTo(u, ids)
               /\ OutstandingOf(ws, In(ws, "Matured")) \in Nat
               /\ PaidTo(u, ids) \in Nat
  <1> DEFINE at == WindowsAtClaim
             ws == WindowsAfterClaim(u, ids)
             P  == Paying(u, ids)
             M  == In(at, "Matured")
             N  == In(ws, "Matured")
             f  == [id \in DOMAIN at |-> Outstanding(at[id])]
             g  == [id \in DOMAIN ws |-> Outstanding(ws[id])]
             d  == [id \in DOMAIN claims[u] |-> PayoutAt(u, id)]
             h  == [id \in WindowIds |-> IF id \in P THEN PayoutAt(u, id) ELSE 0]
  <1>1. /\ DOMAIN at = WindowIds /\ DOMAIN ws = WindowIds
        /\ P \subseteq DOMAIN claims[u] /\ P \subseteq M
        /\ \A id \in WindowIds \ P : ws[id] = at[id]
        /\ \A id \in P :
             /\ PayoutAt(u, id) \in Nat
             /\ ws[id].claimed = at[id].claimed + PayoutAt(u, id)
             /\ ws[id].state \in {"Matured", "Settled"}
             /\ ws[id].state = "Settled" => Outstanding(ws[id]) = 0
        /\ \A id \in WindowIds :
             /\ at[id] \in AWindow /\ ws[id] \in AWindow
             /\ Payable(ws[id]) = Payable(at[id])
    BY ClaimedFigures
  <1>2. ASSUME NEW id \in WindowIds PROVE ws[id].claimed <= Payable(ws[id])
    <2> DEFINE cl == [claims EXCEPT ![u] = ClaimsAfter(u, ids)]
    <2>1. Shaped(ws, nextWindowId, cl) /\ ClaimsAgree(ws, cl, id)
      BY PayingKeepsAccounts
    <2>2. id \in DOMAIN ws
      BY <1>1
    <2> HIDE DEF ws, cl
    <2> QED BY <2>1, <2>2, NeverOverpaid
  <1>3. /\ M \subseteq WindowIds /\ N \subseteq WindowIds /\ N \subseteq M
        /\ IsFiniteSet(M)
    <2>1. M \subseteq WindowIds /\ N \subseteq WindowIds
      BY <1>1 DEF In
    <2>2. N \subseteq M
      BY <1>1 DEF In
    <2>3. IsFiniteSet(WindowIds)
      BY ConsistentShape
    <2> QED BY <2>1, <2>2, <2>3, FS_Subset
  <1> HIDE DEF at, ws, P
  <1>4. ASSUME NEW id \in M
        PROVE  /\ g[id] \in Nat /\ h[id] \in Nat /\ f[id] = g[id] + h[id]
    <2>1. /\ at[id] \in AWindow /\ ws[id] \in AWindow /\ id \in WindowIds
          /\ f[id] = SatSub(Payable(at[id]), at[id].claimed)
          /\ g[id] = SatSub(Payable(ws[id]), ws[id].claimed)
      BY <1>1, <1>3 DEF Outstanding
    <2>2. /\ Payable(at[id]) \in Nat /\ at[id].claimed \in Nat /\ ws[id].claimed \in Nat
          /\ Payable(ws[id]) = Payable(at[id]) /\ ws[id].claimed <= Payable(ws[id])
      BY <1>1, <1>2, <2>1, WindowFields
    <2>3. CASE id \in P
      <3>1. h[id] = PayoutAt(u, id) /\ PayoutAt(u, id) \in Nat
            /\ ws[id].claimed = at[id].claimed + PayoutAt(u, id)
        BY <1>1, <2>1, <2>3
      <3> HIDE DEF f, g, h
      <3> QED BY <2>1, <2>2, <3>1 DEF SatSub
    <2>4. CASE id \notin P
      <3>1. h[id] = 0 /\ f[id] = g[id]
        BY <1>1, <2>1, <2>4
      <3> HIDE DEF f, g, h
      <3> QED BY <2>1, <2>2, <3>1 DEF SatSub
    <2> QED BY <2>3, <2>4
  <1>5. \A id \in M \ N : g[id] = 0
    <2>1. ASSUME NEW id \in M \ N PROVE g[id] = 0
      <3>1. id \in WindowIds /\ ws[id].state # "Matured" /\ at[id].state = "Matured"
        BY <1>1, <1>3 DEF In
      <3>2. id \in P
        BY <1>1, <3>1
      <3>3. Outstanding(ws[id]) = 0
        BY <1>1, <3>1, <3>2
      <3> QED BY <1>1, <3>1, <3>3
    <2> QED BY <2>1
  <1>6. (\A id \in P : d[id] \in Nat /\ h[id] = d[id]) /\ \A id \in M \ P : h[id] = 0
    BY <1>1, <1>3
  <1>7. P \in SUBSET M /\ N \in SUBSET M
    BY <1>1, <1>3
  <1>8. \A id \in N : g[id] \in Nat
    BY <1>4, <1>7
  <1> HIDE DEF f, g, h, d, M, N
  <1>9. SumFunctionOnSet(f, M) = SumFunctionOnSet(g, M) + SumFunctionOnSet(h, M)
    BY <1>3, <1>4, SumAdded
  <1>10. SumFunctionOnSet(d, P) = SumFunctionOnSet(h, M)
    BY <1>3, <1>6, <1>7, SumOfSupport
  <1>11. SumFunctionOnSet(g, N) = SumFunctionOnSet(g, M)
    BY <1>3, <1>5, <1>7, <1>8, SumOfSupport
  <1>12. SumFunctionOnSet(g, M) \in Nat /\ SumFunctionOnSet(h, M) \in Nat
    BY <1>3, <1>4, SumNat
  <1>13. /\ SumFunctionOnSet(f, M) = SumFunctionOnSet(g, N) + SumFunctionOnSet(d, P)
         /\ SumFunctionOnSet(g, N) \in Nat /\ SumFunctionOnSet(d, P) \in Nat
    BY <1>9, <1>10, <1>11, <1>12
  <1> QED BY <1>13 DEF f, g, d, M, N, P, at, ws, OutstandingOf, PaidTo

-----------------------------------------------------------------------------
(* The steps.                                                              *)

\* What a step has to keep for the accounts to agree and the money to be there.
LedgersAgree ==
    /\ Books(totals, windows, openWindow, claims)
    /\ OutstandingOf(windows, In(windows, "Matured")) <= balance

(* A step that touches no leg, no window and no claim and takes nothing    *)
(* from the balance.                                                       *)
LEMMA QuietStep ==
    ASSUME Consistent, UNCHANGED <<windows, openWindow, claims>>,
           totals'.owedOpen = totals.owedOpen,
           totals'.owedUnbonding = totals.owedUnbonding,
           totals'.owedMatured = totals.owedMatured,
           balance' \in Nat, balance <= balance'
    PROVE  LedgersAgree'
  <1>1. Books(totals', windows, openWindow, claims)
    BY DEF Consistent, Books, LegsMatch
  <1>2. Books(totals', windows', openWindow', claims')
    BY <1>1
  <1>3. /\ OutstandingOf(windows, In(windows, "Matured")) \in Nat
        /\ OutstandingOf(windows, In(windows, "Matured")) <= balance
        /\ balance \in Nat
    <2>1. IsFiniteSet(In(windows, "Matured")) /\ In(windows, "Matured") \subseteq DOMAIN windows
      BY ConsistentShape, FS_Subset DEF In
    <2>2. \A x \in DOMAIN windows : windows[x] \in AWindow
      BY ConsistentShape
    <2> QED BY <2>1, <2>2, ConsistentShape, SumsNat DEF Consistent
  <1>4. OutstandingOf(windows', In(windows', "Matured")) <= balance'
    <2>1. OutstandingOf(windows, In(windows, "Matured")) <= balance'
      BY <1>3
    <2> QED BY <2>1
  <1> QED BY <1>2, <1>4 DEF LedgersAgree

(* A step that ends in close_window_if_overdue or close_open_window.       *)
LEMMA ClosingStep ==
    ASSUME Consistent, NEW set, NEW t \in TotalsCache, NEW ws,
           NEW r, r \in {CloseOpenWindow(set, t, ws), StayOpen(set, t, ws)},
           Commit(r), Shaped(ws, nextWindowId, claims'),
           Books(t, ws, openWindow, claims'),
           OutstandingOf(ws, In(ws, "Matured"))
             = OutstandingOf(windows, In(windows, "Matured")),
           balance' \in Nat, balance <= balance'
    PROVE  LedgersAgree'
  <1>1. openWindow = nextWindowId - 1
    BY ConsistentShape
  <1>2. /\ Books(r.totals, r.windows, r.open, claims')
        /\ OutstandingOf(r.windows, In(r.windows, "Matured"))
             = OutstandingOf(ws, In(ws, "Matured"))
    <2>1. CASE r = CloseOpenWindow(set, t, ws)
      BY <1>1, <2>1, ClosingKeepsBooks
    <2>2. CASE r = StayOpen(set, t, ws)
      BY <2>2 DEF StayOpen
    <2> QED BY <2>1, <2>2
  <1>3. totals' = r.totals /\ windows' = r.windows /\ openWindow' = r.open
    BY DEF Commit
  <1>4. /\ OutstandingOf(windows, In(windows, "Matured")) \in Nat
        /\ OutstandingOf(windows, In(windows, "Matured")) <= balance
        /\ balance \in Nat
    <2>1. IsFiniteSet(In(windows, "Matured")) /\ In(windows, "Matured") \subseteq DOMAIN windows
      BY ConsistentShape, FS_Subset DEF In
    <2>2. \A x \in DOMAIN windows : windows[x] \in AWindow
      BY ConsistentShape
    <2> QED BY <2>1, <2>2, ConsistentShape, SumsNat DEF Consistent
  <1>5. OutstandingOf(r.windows, In(r.windows, "Matured")) <= balance'
    BY <1>2, <1>4
  <1> QED BY <1>2, <1>3, <1>5 DEF LedgersAgree

(* Rewards that the distribution module pays only ever add to the balance. *)
LEMMA RewardsAdd ==
    ASSUME Consistent, NEW touched \in SUBSET Validators, RewardsPaidAt(touched)
    PROVE  balance' \in Nat /\ balance <= balance'
  <1>1. TypedChain
    BY PartsMakeTypeInv DEF Consistent, TypedParts
  <1>2. SumFunctionOnSet(accrued, touched) \in Nat
    BY <1>1, FiniteConstants, SumOfPart DEF TypedChain
  <1>3. balance' = balance + SumFunctionOnSet(accrued, touched) /\ balance \in Nat
    BY <1>1 DEF RewardsPaidAt, TypedChain
  <1> QED BY <1>2, <1>3

(* Re-reading the chain leaves the legs of the cache alone.                *)
LEMMA RefreshedLegs ==
    ASSUME totals \in TotalsCache, NEW a, NEW b
    PROVE  LET t == [RefreshedTotals EXCEPT !.bonded = a, !.supply = b]
           IN  /\ t.owedOpen = totals.owedOpen
               /\ t.owedUnbonding = totals.owedUnbonding
               /\ t.owedMatured = totals.owedMatured
  BY DEF RefreshedTotals, TotalsCache

(* A deposit.                                                              *)
LEMMA DepositAgrees ==
    ASSUME Consistent, NEW u \in Users, NEW amount \in Deposits, Deposit(u, amount)
    PROVE  LedgersAgree'
  <1> DEFINE i      == SelectForDelegation(RefreshedSet, amount)
             shares == SharesForDeposit(amount, DepositPool(amount))
             set    == [RefreshedSet EXCEPT ![i].bonded = @ + amount]
             t      == [RefreshedTotals EXCEPT !.bonded = @ + amount,
                                               !.supply = @ + shares]
             r      == DepositPlaced(amount)
  <1>1. amount \in Nat /\ TypedParts
    BY InputsNat, PartsMakeTypeInv DEF Consistent
  <1>2. RefreshedSet \in Seq(ValidatorEntry) /\ RefreshedTotals \in TotalsCache
    BY <1>1, RefreshTyped
  <1>3. shares \in Nat
    <2>1. balance + amount \in Nat
      BY <1>1 DEF TypedParts, TypedChain
    <2>2. DepositPool(amount) \in PoolTotals
      BY <1>1, <1>2, <2>1, PoolTyped DEF DepositPool
    <2> QED BY <1>1, <2>2, SharesForDepositNat
  <1>4. t \in TotalsCache
    <2>1. RefreshedTotals.bonded \in Nat /\ RefreshedTotals.supply \in Nat
      BY <1>2, TotalsFields
    <2>2. /\ RefreshedTotals.bonded + amount \in Nat
          /\ RefreshedTotals.supply + shares \in Nat
      BY <1>1, <1>3, <2>1
    <2> HIDE DEF shares
    <2> QED BY <1>2, <2>2 DEF TotalsCache
  <1>5. /\ t.owedOpen = totals.owedOpen /\ t.owedUnbonding = totals.owedUnbonding
        /\ t.owedMatured = totals.owedMatured
    BY <1>1, RefreshedLegs DEF TypedParts
  <1>6. r \in {CloseOpenWindow(set, t, windows), StayOpen(set, t, windows)}
    BY DEF DepositPlaced, CloseWindowIfOverdue
  <1>7. DepositTarget(amount) \in Validators
    <2>1. AcceptsStake(RefreshedSet) # {}
      BY DEF Deposit, DepositAccepted
    <2>2. i \in DOMAIN RefreshedSet
      BY <1>1, <1>2, <2>1, SelectsActive DEF AcceptsStake
    <2>3. RefreshedSet[i] \in ValidatorEntry
      BY <1>2, <2>2, SetDomain
    <2> QED BY <2>3, EntryFields DEF DepositTarget
  <1> HIDE DEF r, set, t, shares, i
  <1>8. /\ Commit(r) /\ claims' = claims
        /\ RewardsPaidAt(LeftBy(r) \cup {DepositTarget(amount)})
    BY DEF Deposit, r
  <1>9. balance' \in Nat /\ balance <= balance'
    <2>1. LeftBy(r) \cup {DepositTarget(amount)} \in SUBSET Validators
      BY <1>7 DEF LeftBy
    <2> QED BY <1>8, <2>1, RewardsAdd
  <1>10. /\ Shaped(windows, nextWindowId, claims')
         /\ Books(t, windows, openWindow, claims')
    BY <1>5, <1>8, ConsistentShape DEF Consistent, Books, LegsMatch
  <1> QED BY <1>4, <1>6, <1>8, <1>9, <1>10, ClosingStep

(* A withdrawal request.                                                   *)
LEMMA RequestAgrees ==
    ASSUME Consistent, NEW u \in Users, NEW shares \in Requests, Unbond(u, shares)
    PROVE  LedgersAgree'
  <1> DEFINE owed == AssetsForShares(shares, RequestPool)
             t    == [RefreshedTotals EXCEPT !.supply = SatSub(@, shares),
                                             !.owedOpen = @ + owed]
             ws   == [windows EXCEPT ![openWindow].shares = @ + shares,
                                     ![openWindow].owed = @ + owed]
             cl   == [claims EXCEPT ![u] = RecordClaim(u, openWindow, shares, owed)]
             r    == RequestPlaced(shares)
  <1>1. shares \in Nat /\ TypedParts
    BY InputsNat, PartsMakeTypeInv DEF Consistent
  <1>2. RefreshedTotals \in TotalsCache
    BY <1>1, RefreshTyped
  <1>3. owed \in Nat
    <2>1. RequestPool \in PoolTotals
      BY <1>1, <1>2, PoolTyped DEF RequestPool, TypedParts, TypedChain
    <2> QED BY <1>1, <2>1, AssetsForSharesNat
  <1> HIDE DEF owed
  <1>4. t \in TotalsCache /\ t.owedOpen = RefreshedTotals.owedOpen + owed
        /\ t.owedUnbonding = RefreshedTotals.owedUnbonding
        /\ t.owedMatured = RefreshedTotals.owedMatured
    <2>1. RefreshedTotals.supply \in Nat /\ RefreshedTotals.owedOpen \in Nat
      BY <1>2, TotalsFields
    <2>2. SatSub(RefreshedTotals.supply, shares) \in Nat
      BY <1>1, <2>1, SatSubNat
    <2>3. RefreshedTotals.owedOpen + owed \in Nat
      BY <1>3, <2>1
    <2> QED BY <1>2, <2>2, <2>3 DEF TotalsCache
  <1>5. /\ RefreshedTotals.owedOpen = totals.owedOpen
        /\ RefreshedTotals.owedUnbonding = totals.owedUnbonding
        /\ RefreshedTotals.owedMatured = totals.owedMatured
    BY <1>1 DEF RefreshedTotals, TypedParts, TotalsCache
  <1>6. r \in {CloseOpenWindow(RefreshedSet, t, ws), StayOpen(RefreshedSet, t, ws)}
    BY DEF RequestPlaced, CloseWindowIfOverdue, owed
  <1> HIDE DEF t
  <1>7. /\ Shaped(windows, nextWindowId, claims) /\ DOMAIN claims = Users
        /\ openWindow = nextWindowId - 1 /\ totals \in TotalsCache
        /\ Books(totals, windows, openWindow, claims)
    BY ConsistentShape DEF Consistent
  <1>8. /\ t.owedOpen = totals.owedOpen + owed
        /\ t.owedUnbonding = totals.owedUnbonding
        /\ t.owedMatured = totals.owedMatured
    BY <1>4, <1>5
  <1>9. /\ Shaped(ws, nextWindowId, cl) /\ Books(t, ws, openWindow, cl)
        /\ OutstandingOf(ws, In(ws, "Matured"))
             = OutstandingOf(windows, In(windows, "Matured"))
    <2> DEFINE w == windows[openWindow]
    <2>1. openWindow \in DOMAIN windows /\ w \in AWindow
      BY ConsistentShape
    <2>2. PICK v, j : /\ v = w /\ v \in AWindow
                      /\ j = [v EXCEPT !.shares = @ + shares, !.owed = @ + owed]
      BY <2>1
    <2>3. /\ ws[openWindow] = j /\ DOMAIN ws = DOMAIN windows
          /\ ws = [id \in DOMAIN windows |-> ws[id]]
          /\ \A id \in DOMAIN windows \ {openWindow} : ws[id] = windows[id]
      BY <1>7, <2>1, <2>2 DEF Shaped
    <2>4. /\ DOMAIN cl = Users /\ cl[u] = RecordClaim(u, openWindow, shares, owed)
          /\ \A x \in Users \ {u} : cl[x] = claims[x]
      BY <1>7
    <2> HIDE DEF w
    <2>5. /\ j \in AWindow /\ j.owed = w.owed + owed
          /\ j.shares = w.shares + shares /\ j.claimed = w.claimed
          /\ j.state = w.state /\ j.realised = w.realised
      <3>1. v.owed + owed \in Nat /\ v.shares + shares \in Nat
        BY <1>1, <1>3, <2>2, WindowFields
      <3>2. /\ j \in AWindow /\ j.owed = v.owed + owed
            /\ j.shares = v.shares + shares /\ j.claimed = v.claimed
            /\ j.state = v.state /\ j.realised = v.realised
        BY <2>2, <3>1 DEF AWindow, UnbondWindow
      <3> QED BY <2>2, <3>2
    <2> HIDE DEF ws, cl
    <2> QED BY <1>1, <1>3, <1>7, <1>8, <2>3, <2>4, <2>5, JoiningKeepsBooks DEF w
  <1> HIDE DEF ws, cl, r
  <1>10. Commit(r) /\ RewardsPaidAt(LeftBy(r)) /\ claims' = cl
    BY DEF Unbond, r, cl, owed
  <1>11. balance' \in Nat /\ balance <= balance'
    <2>1. LeftBy(r) \in SUBSET Validators
      BY DEF LeftBy
    <2> QED BY <1>10, <2>1, RewardsAdd
  <1>12. Shaped(ws, nextWindowId, claims') /\ Books(t, ws, openWindow, claims')
    BY <1>9, <1>10
  <1> QED BY <1>4, <1>6, <1>9, <1>10, <1>11, <1>12, ClosingStep

(* A collection.                                                           *)
LEMMA CollectionAgrees ==
    ASSUME Consistent, NEW limit \in CollectLimits, CollectMatured(limit)
    PROVE  LedgersAgree'
  <1> DEFINE ids == Collected(limit)
             ws  == MaturedWindows(ids)
  <1>1. ids \in SUBSET DueWindows
    BY DEF Collected
  <1> HIDE DEF ids
  <1>2. /\ Books(LiabilityArrived(ids), ws, openWindow, claims)
        /\ OutstandingOf(ws, In(ws, "Matured")) <= balance
    BY <1>1, CollectKeepsBooks
  <1>3. /\ totals' = LiabilityArrived(ids) /\ windows' = ws
        /\ openWindow' = openWindow /\ claims' = claims /\ balance' = balance
    BY DEF CollectMatured, ids, chainVars
  <1> HIDE DEF ws
  <1> QED BY <1>2, <1>3 DEF LedgersAgree

(* A claim.                                                                *)
LEMMA ClaimAgrees ==
    ASSUME Consistent, NEW u \in Users, NEW list, ClaimMatured(u, list)
    PROVE  LedgersAgree'
  <1> DEFINE ids  == ClaimIds(u, list)
             at   == WindowsAtClaim
             ws   == WindowsAfterClaim(u, ids)
             cl   == [claims EXCEPT ![u] = ClaimsAfter(u, ids)]
             t    == LiabilityArrived(DueWindows)
             paid == PaidTo(u, ids)
             P    == Paying(u, ids)
  <1>1. /\ Shaped(at, nextWindowId, claims) /\ Books(t, at, openWindow, claims)
        /\ OutstandingOf(at, In(at, "Matured")) <= balance
    BY CollectKeepsBooks DEF WindowsAtClaim
  <1>2. /\ Shaped(ws, nextWindowId, cl) /\ PaidLate(ws, cl) /\ RealisedLate(ws)
        /\ \A id \in WindowIds : ClaimsAgree(ws, cl, id)
    BY PayingKeepsAccounts
  <1>3. /\ OutstandingOf(at, In(at, "Matured"))
             = OutstandingOf(ws, In(ws, "Matured")) + paid
        /\ OutstandingOf(ws, In(ws, "Matured")) \in Nat /\ paid \in Nat
    BY PaidFromMatured
  <1>4. /\ DOMAIN at = WindowIds /\ DOMAIN ws = WindowIds
        /\ P \subseteq In(at, "Matured")
        /\ \A id \in WindowIds \ P : ws[id] = at[id]
        /\ \A id \in P : ws[id].state \in {"Matured", "Settled"}
        /\ \A id \in WindowIds : ws[id].owed = at[id].owed
    BY ClaimedFigures
  <1>5. t \in TotalsCache /\ balance \in Nat
    BY ConsistentShape, WindowsTyped, ArrivedTyped
  <1> HIDE DEF ids, at, ws, t, paid, P
  <1>6. /\ totals' = [t EXCEPT !.owedMatured = SatSub(@, paid)] /\ windows' = ws
        /\ openWindow' = openWindow /\ claims' = cl /\ balance' = balance - paid
    BY DEF ClaimMatured, ids, ws, t, paid
  <1>7. openWindow \in WindowIds /\ ws[openWindow] = at[openWindow]
    <2>1. openWindow \in WindowIds /\ openWindow = nextWindowId - 1
      BY ConsistentShape
    <2>2. at[openWindow].state = "Open"
      BY <1>1, <2>1 DEF Shaped, In
    <2> QED BY <1>4, <2>1, <2>2 DEF In
  <1>8. totals'.owedOpen = ws[openWindow].owed
    BY <1>1, <1>5, <1>6, <1>7 DEF Books, LegsMatch, TotalsCache
  <1>9. totals'.owedUnbonding = OwedIn(ws, In(ws, "Unbonding"))
    <2> DEFINE U == In(at, "Unbonding")
    <2>1. In(ws, "Unbonding") = U
      BY <1>4 DEF In
    <2>2. /\ IsFiniteSet(U) /\ U \subseteq DOMAIN at /\ U \subseteq DOMAIN ws
          /\ \A id \in U : ws[id].owed = at[id].owed
      <3>1. IsFiniteSet(WindowIds)
        BY ConsistentShape
      <3>2. U \subseteq WindowIds
        BY <1>4 DEF In
      <3> HIDE DEF U
      <3> QED BY <1>4, <3>1, <3>2, FS_Subset
    <2>3. t.owedUnbonding = OwedIn(at, U) /\ totals'.owedUnbonding = t.owedUnbonding
      BY <1>1, <1>5, <1>6 DEF Books, LegsMatch, TotalsCache
    <2> HIDE DEF U
    <2>4. OwedIn(ws, U) = OwedIn(at, U)
      BY <2>2, SameOwed
    <2> QED BY <2>1, <2>3, <2>4
  <1>10. totals'.owedMatured = OutstandingOf(ws, In(ws, "Matured"))
    <2>1. t.owedMatured = OutstandingOf(at, In(at, "Matured"))
      BY <1>1 DEF Books, LegsMatch
    <2>2. totals'.owedMatured = SatSub(t.owedMatured, paid)
      BY <1>5, <1>6 DEF TotalsCache
    <2> QED BY <1>3, <2>1, <2>2 DEF SatSub
  <1>11. LegsMatch(totals', ws, openWindow)
    BY <1>8, <1>9, <1>10 DEF LegsMatch
  <1>12. Books(totals', ws, openWindow, cl)
    BY <1>2, <1>4, <1>11 DEF Books
  <1>13. OutstandingOf(ws, In(ws, "Matured")) <= balance'
    BY <1>1, <1>3, <1>5, <1>6
  <1> HIDE DEF cl
  <1> QED BY <1>6, <1>12, <1>13 DEF LedgersAgree

(* Steps of the users.                                                     *)
LEMMA UserStepAgrees == ASSUME Consistent, UserAction PROVE LedgersAgree'
  <1>1. ASSUME NEW seed \in Seeds, Bootstrap(seed) PROVE LedgersAgree'
    <2>1. totals \in TotalsCache /\ balance \in Nat
      BY ConsistentShape
    <2>2. /\ UNCHANGED <<windows, openWindow, claims, balance>>
          /\ totals' = [totals EXCEPT !.bonded = @ + seed, !.supply = @ + seed,
                                       !.lastSync = now]
      BY <1>1 DEF Bootstrap, queueVars
    <2>3. /\ totals'.owedOpen = totals.owedOpen
          /\ totals'.owedUnbonding = totals.owedUnbonding
          /\ totals'.owedMatured = totals.owedMatured
      BY <2>1, <2>2 DEF TotalsCache
    <2> QED BY <2>1, <2>2, <2>3, QuietStep
  <1> QED BY <1>1, DepositAgrees, RequestAgrees, ClaimAgrees DEF UserAction

(* Steps of upkeep.                                                        *)
LEMMA UpkeepStepAgrees == ASSUME Consistent, UpkeepAction PROVE LedgersAgree'
  <1>0. totals \in TotalsCache /\ balance \in Nat /\ TypedParts
    BY ConsistentShape, PartsMakeTypeInv DEF Consistent
  <1>1. ASSUME AdvanceWindow PROVE LedgersAgree'
    <2> DEFINE r == CloseOpenWindow(validators, totals, windows)
    <2>1. Commit(r) /\ RewardsPaidAt(LeftBy(r)) /\ claims' = claims
      BY <1>1 DEF AdvanceWindow
    <2>2. r \in {CloseOpenWindow(validators, totals, windows),
                 StayOpen(validators, totals, windows)}
      OBVIOUS
    <2> HIDE DEF r
    <2>3. balance' \in Nat /\ balance <= balance'
      <3>1. LeftBy(r) \in SUBSET Validators
        BY DEF LeftBy
      <3> QED BY <2>1, <3>1, RewardsAdd
    <2>4. /\ Shaped(windows, nextWindowId, claims')
          /\ Books(totals, windows, openWindow, claims')
      BY <2>1, ConsistentShape DEF Consistent
    <2> QED BY <1>0, <2>1, <2>2, <2>3, <2>4, ClosingStep
  <1>2. ASSUME NEW limit \in PageLimits, Sync(limit) PROVE LedgersAgree'
    <2>1. /\ UNCHANGED <<windows, openWindow, claims, balance>>
          /\ totals'.owedOpen = totals.owedOpen
          /\ totals'.owedUnbonding = totals.owedUnbonding
          /\ totals'.owedMatured = totals.owedMatured
      BY <1>0, <1>2 DEF Sync, queueVars, chainVars, TotalsCache
    <2> QED BY <1>0, <2>1, QuietStep
  <1>3. ASSUME NEW limit \in PageLimits, Compound(limit) PROVE LedgersAgree'
    <2>1. /\ UNCHANGED <<windows, openWindow, claims>>
          /\ totals'.owedOpen = totals.owedOpen
          /\ totals'.owedUnbonding = totals.owedUnbonding
          /\ totals'.owedMatured = totals.owedMatured
      BY <1>0, <1>3 DEF Compound, TotalsAfterCompound, queueVars, TotalsCache
    <2> DEFINE paid == SumFunctionOnSet(accrued, RestakedAt(limit) \ OnPage(limit))
    <2>2. paid \in Nat
      <3>1. RestakedAt(limit) \ OnPage(limit) \in SUBSET Validators
        BY <1>0, <1>3, RestakedInside
      <3> QED BY <1>0, <3>1, FiniteConstants, SumOfPart DEF TypedParts, TypedChain
    <2>3. balance' = balance + paid
      BY <1>3 DEF Compound
    <2> HIDE DEF paid
    <2>4. balance' \in Nat /\ balance <= balance'
      BY <1>0, <2>2, <2>3
    <2> QED BY <2>1, <2>4, QuietStep
  <1> QED BY <1>1, <1>2, <1>3, CollectionAgrees DEF UpkeepAction

(* Steps of the manager and of the chain, and stuttering.                  *)
LEMMA OtherStepAgrees ==
    ASSUME Consistent, ManagerAction \/ ChainAction \/ UNCHANGED vars
    PROVE  LedgersAgree'
  <1>0. balance \in Nat /\ TypedParts
    BY ConsistentShape, PartsMakeTypeInv DEF Consistent
  <1>1. UNCHANGED <<windows, openWindow, claims, totals>>
    BY DEF ManagerAction, SetWeights, SetPerformanceFee, Rebalance, SetPaused,
       Migrate, ChainAction, NextBlock, Slash, AccrueRewards, BurnOwnShares,
       Donate, contractVars, queueVars, vars
  <1>2. balance' \in Nat /\ balance <= balance'
    <2>1. ASSUME NEW move \in Moves, Rebalance(move)
          PROVE  balance' \in Nat /\ balance <= balance'
      <3>1. {move.from, move.to} \in SUBSET Validators
        BY ConstantsAreTyped
      <3> QED BY <2>1, <3>1, RewardsAdd DEF Rebalance
    <2>2. ASSUME NextBlock PROVE balance' \in Nat /\ balance <= balance'
      <3>1. PICK released \in SUBSET unbonding :
              balance' = balance + SumFunction([e \in released |-> e.amount])
        BY <2>2 DEF NextBlock
      <3>2. IsFiniteSet(released)
        BY <1>0, FS_Subset DEF TypedParts, TypedChain
      <3>3. [e \in released |-> e.amount] \in [released -> Nat]
        BY <1>0 DEF TypedParts, TypedChain, UnbondingEntry
      <3>4. SumFunction([e \in released |-> e.amount]) \in Nat
        BY <3>2, <3>3, SumOfAll
      <3> QED BY <1>0, <3>1, <3>4
    <2>3. ASSUME NEW amount \in Deposits, Donate(amount)
          PROVE  balance' \in Nat /\ balance <= balance'
      BY <1>0, <2>3, InputsNat DEF Donate
    <2>4. CASE balance' = balance
      BY <1>0, <2>4
    <2>5. CASE ManagerAction
      BY <2>1, <2>4, <2>5 DEF ManagerAction, SetWeights, SetPerformanceFee, SetPaused,
         Migrate, chainVars
    <2>6. CASE ChainAction
      BY <2>2, <2>3, <2>4, <2>6 DEF ChainAction, Slash, AccrueRewards, BurnOwnShares
    <2>7. CASE UNCHANGED vars
      BY <2>4, <2>7 DEF vars, chainVars
    <2> QED BY <2>5, <2>6, <2>7
  <1> QED BY <1>1, <1>2, QuietStep

(* At instantiation nothing is owed.                                       *)
LEMMA ConsistentInit == Init => Consistent
  <1> SUFFICES ASSUME Init PROVE Consistent
    OBVIOUS
  <1>1. TypeInv /\ ClaimInv
    BY TypeInvInit, ClaimInvInit
  <1>2. /\ windows = [id \in {0} |-> WindowOpen(now, WindowLength)] /\ openWindow = 0
        /\ totals.owedOpen = 0 /\ totals.owedUnbonding = 0 /\ totals.owedMatured = 0
        /\ \A u \in Users : DOMAIN claims[u] = {}
        /\ balance = 0
    BY DEF Init
  <1>3. /\ DOMAIN windows = {0} /\ windows[0].state = "Open"
        /\ windows[0].owed = 0 /\ windows[0].shares = 0
        /\ windows[0].claimed = 0 /\ windows[0].realised = None
    BY <1>2 DEF WindowOpen
  <1>4. In(windows, "Unbonding") = {} /\ In(windows, "Matured") = {}
    BY <1>3 DEF In
  <1>5. OwedIn(windows, {}) = 0 /\ OutstandingOf(windows, {}) = 0
    BY SumEmpty DEF OwedIn, OutstandingOf
  <1>6. LegsMatch(totals, windows, openWindow)
    BY <1>2, <1>3, <1>4, <1>5 DEF LegsMatch
  <1>7. \A id \in DOMAIN windows : ClaimsAgree(windows, claims, id)
    BY <1>2, <1>3, NoAccounts
  <1>8. RealisedLate(windows) /\ PaidLate(windows, claims)
    BY <1>2, <1>3 DEF RealisedLate, PaidLate
  <1>9. OutstandingOf(windows, In(windows, "Matured")) <= balance
    BY <1>2, <1>4, <1>5
  <1> QED BY <1>1, <1>6, <1>7, <1>8, <1>9 DEF Consistent, Books

(* Every step keeps the accounts in agreement.                             *)
LEMMA ConsistentStep == Consistent /\ [Next]_vars => Consistent'
  <1> SUFFICES ASSUME Consistent, [Next]_vars PROVE Consistent'
    OBVIOUS
  <1>1. TypeInv' /\ ClaimInv'
    BY TypeInvStep, ClaimInvStep DEF Consistent
  <1>2. LedgersAgree'
    BY UserStepAgrees, UpkeepStepAgrees, OtherStepAgrees DEF Next
  <1> QED BY <1>1, <1>2 DEF Consistent, LedgersAgree

(* In every state the pricing cache, the windows and the claims tell the   *)
(* same story, and the matured money is in the balance (record_claim,      *)
(* close_open_window, mature_due_windows, execute_claim_matured).          *)
THEOREM LedgersAlwaysAgree == Spec => []Consistent
  BY ConsistentInit, ConsistentStep, PTL DEF Spec

-----------------------------------------------------------------------------
(* What that shows.                                                        *)

(* The three liability legs of the pricing cache are the windows' own      *)
(* figures in every state: the saturating subtractions of contract.rs      *)
(* never hide a mismatch.                                                  *)
THEOREM LiabilitiesAlwaysMatch == Spec => []LiabilitiesMatchWindows
  <1>1. Consistent => LiabilitiesMatchWindows
    <2>1. \A state : InState(state) = In(windows, state)
      BY DEF InState, In, WindowIds
    <2> QED BY <2>1 DEF Consistent, Books, LegsMatch, LiabilitiesMatchWindows,
            OwedIn, OwedOf, WindowIds
  <1> QED BY LedgersAlwaysAgree, <1>1, PTL

(* What the matured windows still have to pay is always in the contract's  *)
(* balance, whatever was slashed (spoken_for in mature_due_windows).       *)
THEOREM MaturedMoneyAlwaysThere == Spec => []MaturedMoneyIsThere
  <1>1. Consistent => MaturedMoneyIsThere
    BY DEF Consistent, MaturedMoneyIsThere, InState, In, WindowIds
  <1> QED BY LedgersAlwaysAgree, <1>1, PTL

(* A sum over those who have a claim on a window is one over all accounts. *)
LEMMA SumOverClaimants ==
    ASSUME NEW id, NEW f, NEW g, DOMAIN f = ClaimantsOf(id),
           \A u \in ClaimantsOf(id) : f[u] \in Nat /\ g[u] = f[u],
           \A u \in Users \ ClaimantsOf(id) : g[u] = 0
    PROVE  SumFunction(f) = SumFunctionOnSet(g, Users)
  <1>1. ClaimantsOf(id) \in SUBSET Users /\ IsFiniteSet(Users)
    BY FiniteConstants DEF ClaimantsOf
  <1>2. SumFunction(f) = SumFunctionOnSet(f, ClaimantsOf(id))
    BY DEF SumFunction, SumFunctionOnSet, FoldFunction
  <1> QED BY <1>1, <1>2, SumOfSupport

(* A window owes exactly what its claims say, for exactly the shares they  *)
(* burned, and has paid exactly what its paid claims were worth, in every  *)
(* state (record_claim, execute_claim_matured).                            *)
THEOREM ClaimsAlwaysMatch == Spec => []ClaimsMatchWindows
  <1>1. ASSUME Consistent PROVE ClaimsMatchWindows
    <2>1. ASSUME NEW id \in WindowIds
          PROVE  /\ ClaimsSum(id, ClaimOwed) = windows[id].owed
                 /\ ClaimsSum(id, ClaimShares) = windows[id].shares
                 /\ ClaimsSum(id, LAMBDA c : PaidFrom(id, c)) = windows[id].claimed
      <3> DEFINE C == ClaimantsOf(id)
                 f == [u \in C |-> claims[u][id].owed]
                 b == [u \in C |-> claims[u][id].shares]
                 p == [u \in C |-> PaidFrom(id, claims[u][id])]
      <3>1. /\ Shaped(windows, nextWindowId, claims) /\ WindowIds = DOMAIN windows
            /\ ClaimsAgree(windows, claims, id)
        BY <1>1, ConsistentShape DEF Consistent, Books
      <3>2. /\ OwedTo(claims, id) \in [Users -> Nat]
            /\ BurnedBy(claims, id) \in [Users -> Nat]
            /\ ReceivedBy(windows, claims, id) \in [Users -> Nat]
        BY <3>1, ShapedNumbers
      <3>3. \A u \in C : u \in Users /\ id \in DOMAIN claims[u]
        BY DEF ClaimantsOf
      <3>4. \A u \in Users \ C : id \notin DOMAIN claims[u]
        BY DEF ClaimantsOf
      <3>5. DOMAIN f = C /\ DOMAIN b = C /\ DOMAIN p = C
        OBVIOUS
      <3>6. \A u \in C : /\ OwedTo(claims, id)[u] = f[u]
                         /\ BurnedBy(claims, id)[u] = b[u]
        BY <3>3 DEF OwedTo, BurnedBy
      <3>7. \A u \in C : ReceivedBy(windows, claims, id)[u] = p[u]
        BY <3>3 DEF ReceivedBy, PaidFrom
      <3>8. \A u \in Users \ C : /\ OwedTo(claims, id)[u] = 0
                                 /\ BurnedBy(claims, id)[u] = 0
                                 /\ ReceivedBy(windows, claims, id)[u] = 0
        BY <3>4 DEF OwedTo, BurnedBy, ReceivedBy
      <3>9. /\ ClaimsSum(id, ClaimOwed) = SumFunction(f)
            /\ ClaimsSum(id, ClaimShares) = SumFunction(b)
            /\ ClaimsSum(id, LAMBDA c : PaidFrom(id, c)) = SumFunction(p)
        BY DEF ClaimsSum, ClaimOwed, ClaimShares
      <3> HIDE DEF f, b, p
      <3>10. /\ \A u \in C : f[u] \in Nat /\ b[u] \in Nat /\ p[u] \in Nat
        BY <3>2, <3>3, <3>6, <3>7
      <3> HIDE DEF C
      <3>11. SumFunction(f) = SumFunctionOnSet(OwedTo(claims, id), Users)
        BY <3>5, <3>6, <3>8, <3>10, SumOverClaimants DEF C
      <3>12. SumFunction(b) = SumFunctionOnSet(BurnedBy(claims, id), Users)
        BY <3>5, <3>6, <3>8, <3>10, SumOverClaimants DEF C
      <3>13. SumFunction(p) = SumFunctionOnSet(ReceivedBy(windows, claims, id), Users)
        BY <3>5, <3>7, <3>8, <3>10, SumOverClaimants DEF C
      <3> QED BY <3>1, <3>9, <3>11, <3>12, <3>13 DEF ClaimsAgree
    <2> QED BY <2>1 DEF ClaimsMatchWindows
  <1> QED BY LedgersAlwaysAgree, <1>1, PTL

-----------------------------------------------------------------------------
(* A window's life goes one way.                                           *)

\* What one step may do to a window.
Forward(w, v) ==
    /\ v.state \in Later(w.state)
    /\ w.state # "Open" => /\ v.owed = w.owed
                           /\ v.maturesAt = w.maturesAt
                           /\ v.claimed >= w.claimed
    /\ w.realised # None => v.realised = w.realised

(* A window that stays as it is.                                           *)
LEMMA StaysForward == ASSUME NEW w \in AWindow PROVE Forward(w, w)
  <1>1. w.state \in WindowStates /\ w.claimed \in Nat
    BY DEF AWindow, UnbondWindow
  <1> QED BY <1>1 DEF Forward, Later, WindowStates

(* The open window may become anything: nothing of it is settled.          *)
LEMMA OpenForward ==
    ASSUME NEW w \in AWindow, NEW v \in AWindow, w.state = "Open", w.realised = None
    PROVE  Forward(w, v)
  BY DEF Forward, Later, AWindow, UnbondWindow

\* One step of the whole queue.
QueueForward ==
    \A id \in WindowIds : id \in DOMAIN windows' /\ Forward(windows[id], windows'[id])

(* The windows after a step are windows.                                   *)
LEMMA NextWindowsTyped ==
    Consistent' => \A id \in WindowIds' : windows'[id] \in AWindow
  <1>1. Consistent => \A id \in WindowIds : windows[id] \in AWindow
    BY ConsistentShape
  <1>2. Consistent' => (\A id \in WindowIds : windows[id] \in AWindow)'
    BY <1>1, PTL
  <1> QED BY <1>2

(* A step that writes to no window but the open one.                       *)
LEMMA OthersKept ==
    ASSUME Consistent, Consistent', DOMAIN windows \subseteq DOMAIN windows',
           \A id \in DOMAIN windows \ {openWindow} : windows'[id] = windows[id]
    PROVE  QueueForward
  <1>1. ASSUME NEW id \in WindowIds PROVE Forward(windows[id], windows'[id])
    <2>1. windows[id] \in AWindow /\ WindowIds = DOMAIN windows
      BY ConsistentShape
    <2>2. CASE id = openWindow
      <3>1. windows[id].state = "Open" /\ windows[id].realised = None
        BY <2>1, <2>2, ConsistentShape DEF Consistent, Books, RealisedLate
      <3>2. windows'[id] \in AWindow
        BY <2>1, NextWindowsTyped DEF WindowIds
      <3> QED BY <2>1, <3>1, <3>2, OpenForward
    <2>3. CASE id # openWindow
      BY <2>1, <2>3, StaysForward
    <2> QED BY <2>2, <2>3
  <1> QED BY <1>1 DEF QueueForward, WindowIds

(* A closing writes to the window it closes and opens the next.            *)
LEMMA ClosingForward ==
    ASSUME Consistent, Consistent', NEW set, NEW t, NEW ws,
           DOMAIN ws = DOMAIN windows,
           \A id \in DOMAIN windows \ {openWindow} : ws[id] = windows[id],
           \/ Commit(CloseOpenWindow(set, t, ws)) \/ Commit(StayOpen(set, t, ws))
    PROVE  QueueForward
  <1>1. DOMAIN windows = 0 .. nextWindowId - 1 /\ nextWindowId \in Nat \ {0}
    BY ConsistentShape DEF Shaped
  <1>2. CASE Commit(CloseOpenWindow(set, t, ws))
    <2> DEFINE e(id) == CloseOpenWindow(set, t, ws).windows[id]
    <2>1. windows' = CloseOpenWindow(set, t, ws).windows
      BY <1>2 DEF Commit
    <2>2. /\ DOMAIN windows' = 0 .. nextWindowId
          /\ \A id \in 0 .. nextWindowId :
               id # nextWindowId /\ id # openWindow => windows'[id] = ws[id]
      BY <2>1 DEF CloseOpenWindow
    <2> QED BY <1>1, <2>2, OthersKept
  <1>3. CASE Commit(StayOpen(set, t, ws))
    BY <1>3, OthersKept DEF Commit, StayOpen
  <1> QED BY <1>2, <1>3

(* A step that leaves every window alone.                                  *)
LEMMA KeptForward ==
    ASSUME Consistent, windows' = windows
    PROVE  QueueForward
  BY ConsistentShape, StaysForward DEF QueueForward, WindowIds

(* A collection realises what was in flight.                               *)
LEMMA CollectingForward ==
    ASSUME Consistent, NEW ids \in SUBSET DueWindows, NEW id \in WindowIds
    PROVE  Forward(windows[id], MaturedWindows(ids)[id])
  <1> DEFINE m == MaturedWindows(ids)[id]
             w == windows[id]
  <1>1. w \in AWindow
    BY ConsistentShape
  <1>2. CASE id \in ids
    <2>1. /\ m.owed = w.owed /\ m.maturesAt = w.maturesAt /\ m.claimed = w.claimed
          /\ w.state = "Unbonding" /\ w.realised = None /\ m.state = "Matured"
      BY <1>2, CollectedFigures
    <2>2. w.claimed \in Nat
      BY <1>1, WindowFields
    <2> HIDE DEF m, w
    <2>3. Forward(w, m)
      BY <2>1, <2>2 DEF Forward, Later
    <2> QED BY <2>3 DEF m, w
  <1>3. CASE id \notin ids
    <2>1. m = w
      BY <1>3, CollectedFigures
    <2> HIDE DEF m, w
    <2>2. Forward(w, m)
      BY <1>1, <2>1, StaysForward
    <2> QED BY <2>2 DEF m, w
  <1> QED BY <1>2, <1>3

(* A claim collects, and pays out of what has matured.                     *)
LEMMA ClaimingForward ==
    ASSUME Consistent, NEW u \in Users, NEW ids, NEW id \in WindowIds
    PROVE  Forward(windows[id], WindowsAfterClaim(u, ids)[id])
  <1> DEFINE w == windows[id]
             a == WindowsAtClaim[id]
             v == WindowsAfterClaim(u, ids)[id]
  <1>1. Forward(w, a)
    BY CollectingForward DEF WindowsAtClaim
  <1>2. /\ a \in AWindow /\ w \in AWindow
        /\ v.owed = a.owed /\ v.realised = a.realised /\ v.maturesAt = a.maturesAt
    BY ClaimedFigures, ConsistentShape
  <1>3. \/ v = a
        \/ /\ a.state = "Matured" /\ v.state \in {"Matured", "Settled"}
           /\ \E x \in Nat : v.claimed = a.claimed + x
    <2>1. CASE id \in Paying(u, ids)
      <3>1. a.state = "Matured"
        BY <2>1 DEF Paying
      <3> QED BY <2>1, <3>1, ClaimedFigures
    <2>2. CASE id \notin Paying(u, ids)
      BY <2>2, ClaimedFigures
    <2> QED BY <2>1, <2>2
  <1>4. a.claimed \in Nat /\ w.claimed \in Nat /\ w.state \in WindowStates
    BY <1>2 DEF AWindow, UnbondWindow
  <1> HIDE DEF w, a, v
  <1>5. Forward(w, v)
    <2>1. CASE v = a
      BY <1>1, <2>1
    <2>2. CASE v # a
      <3>1. /\ a.state = "Matured" /\ v.state \in {"Matured", "Settled"}
            /\ v.claimed >= a.claimed /\ v.claimed \in Nat
        BY <1>3, <1>4, <2>2
      <3>2. w.state \in {"Open", "Unbonding", "Matured"}
        BY <1>1, <1>4, <3>1 DEF Forward, Later, WindowStates
      <3>3. v.state \in Later(w.state)
        BY <3>1, <3>2 DEF Later, WindowStates
      <3> QED BY <1>1, <1>2, <1>4, <3>1, <3>3 DEF Forward
    <2> QED BY <2>1, <2>2
  <1> QED BY <1>5 DEF w, v

(* Every step takes every window forward or leaves it where it is.         *)
LEMMA QueueGoesForward ==
    ASSUME Consistent, [Next]_vars
    PROVE  QueueForward
  <1>0. Consistent'
    BY ConsistentStep
  <1>1. ASSUME NEW u \in Users, NEW amount \in Deposits, Deposit(u, amount)
        PROVE  QueueForward
    <2>1. Commit(DepositPlaced(amount))
      BY <1>1 DEF Deposit
    <2> QED BY <1>0, <2>1, ClosingForward DEF DepositPlaced, CloseWindowIfOverdue
  <1>2. ASSUME NEW u \in Users, NEW shares \in Requests, Unbond(u, shares)
        PROVE  QueueForward
    <2>1. Commit(RequestPlaced(shares))
      BY <1>2 DEF Unbond
    <2> DEFINE owed == AssetsForShares(shares, RequestPool)
               ws   == [windows EXCEPT ![openWindow].shares = @ + shares,
                                       ![openWindow].owed = @ + owed]
    <2>2. /\ DOMAIN ws = DOMAIN windows
          /\ \A id \in DOMAIN windows \ {openWindow} : ws[id] = windows[id]
      OBVIOUS
    <2>3. PICK set, t : \/ Commit(CloseOpenWindow(set, t, ws))
                        \/ Commit(StayOpen(set, t, ws))
      BY <2>1 DEF RequestPlaced, CloseWindowIfOverdue
    <2> HIDE DEF ws
    <2> QED BY <1>0, <2>2, <2>3, ClosingForward
  <1>3. ASSUME NEW u \in Users, NEW list, ClaimMatured(u, list)
        PROVE  QueueForward
    <2>1. windows' = WindowsAfterClaim(u, ClaimIds(u, list))
      BY <1>3 DEF ClaimMatured
    <2>2. DOMAIN windows' = WindowIds
      BY <2>1, ClaimedFigures
    <2> QED BY <2>1, <2>2, ClaimingForward DEF QueueForward
  <1>4. ASSUME NEW limit, CollectMatured(limit) PROVE QueueForward
    <2>1. windows' = MaturedWindows(Collected(limit)) /\ Collected(limit) \in SUBSET DueWindows
      BY <1>4 DEF CollectMatured, Collected
    <2>2. DOMAIN windows' = WindowIds
      BY <2>1, CollectedFigures
    <2> QED BY <2>1, <2>2, CollectingForward DEF QueueForward
  <1>5. ASSUME AdvanceWindow PROVE QueueForward
    <2>1. Commit(CloseOpenWindow(validators, totals, windows))
      BY <1>5 DEF AdvanceWindow
    <2> QED BY <1>0, <2>1, ClosingForward
  <1>6. CASE windows' = windows
    BY <1>6, KeptForward
  <1>7. CASE UserAction
    BY <1>1, <1>2, <1>3, <1>6, <1>7 DEF UserAction, Bootstrap, queueVars
  <1>8. CASE UpkeepAction
    BY <1>4, <1>5, <1>6, <1>8 DEF UpkeepAction, Sync, Compound, queueVars
  <1>9. CASE ManagerAction \/ ChainAction \/ UNCHANGED vars
    BY <1>6, <1>9 DEF ManagerAction, SetWeights, SetPerformanceFee, Rebalance, SetPaused,
       Migrate, ChainAction, NextBlock, Slash, AccrueRewards, BurnOwnShares,
       Donate, contractVars, queueVars, vars
  <1> QED BY <1>7, <1>8, <1>9 DEF Next

(* A window is never reopened, what it owes is fixed when it closes and    *)
(* what it realised when it matures (windows.rs, contract.rs).             *)
THEOREM WindowsAlwaysForward == Spec => WindowsMoveForward
  <1> DEFINE Moved(id) ==
        /\ id \in DOMAIN windows'
        /\ windows'[id].state \in Later(windows[id].state)
        /\ windows[id].state # "Open" =>
              /\ windows'[id].owed = windows[id].owed
              /\ windows'[id].maturesAt = windows[id].maturesAt
              /\ windows'[id].claimed >= windows[id].claimed
        /\ windows[id].realised # None =>
              windows'[id].realised = windows[id].realised
  <1>1. ASSUME Consistent, [Next]_vars, NEW id \in WindowIds PROVE Moved(id)
    BY <1>1, QueueGoesForward DEF QueueForward, Forward
  <1>2. Consistent /\ [Next]_vars => [\A id \in WindowIds : Moved(id)]_vars
    BY <1>1
  <1> QED BY LedgersAlwaysAgree, <1>2, PTL DEF Spec, WindowsMoveForward

-----------------------------------------------------------------------------
(* The promise: LstCore implements WithdrawalQueue, with windows as batches *)
(* and claims as receipts.  Each step is a stutter there or one of its      *)
(* actions: a closing seals, a request joins (and may seal), a collection   *)
(* brings batches back, and a claim settles receipts.  The agreement of the *)
(* ledgers is what makes the amounts fit: no window pays out more than it   *)
(* realised.                                                                *)

\* A batch, and a window seen as one.
Batch == [owed : Nat, returned : Nat \cup {None}, paid : Nat]

AsBatch(w) == [owed |-> w.owed, returned |-> w.realised, paid |-> w.claimed]

BatchesOf(ws) == [id \in DOMAIN ws |-> AsBatch(ws[id])]

FreshBatch == [owed |-> 0, returned |-> None, paid |-> 0]

(* The batches are the windows, before a step and after it.                *)
LEMMA BatchesAreWindows ==
    /\ Batches = BatchesOf(windows)
    /\ Batches' = BatchesOf(windows')
  BY DEF Batches, BatchesOf, AsBatch, WindowIds

(* A window's figures make a batch.                                        *)
LEMMA BatchTyped == ASSUME NEW w \in AWindow PROVE AsBatch(w) \in Batch
  BY DEF AsBatch, Batch, AWindow, UnbondWindow

(* The queue of batches after a closing.                                   *)
LEMMA SealedBy ==
    ASSUME NEW before, DOMAIN before = WindowIds, openWindow \in WindowIds,
           before[openWindow] \in Batch,
           openWindow' = openWindow + 1, openWindow' \notin WindowIds,
           openWindow \in Nat,
           DOMAIN windows' = WindowIds \cup {openWindow'},
           AsBatch(windows'[openWindow']) = FreshBatch,
           \/ AsBatch(windows'[openWindow]) = before[openWindow]
           \/ /\ before[openWindow].owed = 0
              /\ AsBatch(windows'[openWindow])
                   = [before[openWindow] EXCEPT !.returned = 0],
           \A id \in WindowIds \ {openWindow} : AsBatch(windows'[id]) = before[id]
    PROVE  Queue!Sealed(before)
  <1> DEFINE b == AsBatch(windows'[openWindow])
  <1>1. b \in {before[openWindow]} \cup
              (IF before[openWindow].owed = 0
               THEN {[before[openWindow] EXCEPT !.returned = 0]} ELSE {})
    OBVIOUS
  <1>2. Batches' = [id \in DOMAIN before \cup {openWindow'} |->
            CASE id = openWindow' -> [owed |-> 0, returned |-> None, paid |-> 0]
              [] id = openWindow  -> b
              [] OTHER      -> before[id]]
    <2>1. Batches' = [id \in DOMAIN before \cup {openWindow'} |-> AsBatch(windows'[id])]
      BY BatchesAreWindows DEF BatchesOf
    <2>2. ASSUME NEW id \in DOMAIN before \cup {openWindow'}
          PROVE  AsBatch(windows'[id]) =
            CASE id = openWindow' -> [owed |-> 0, returned |-> None, paid |-> 0]
              [] id = openWindow  -> b
              [] OTHER      -> before[id]
      <3>1. CASE id = openWindow'
        BY <3>1 DEF FreshBatch
      <3>2. CASE id = openWindow
        BY <3>2
      <3>3. CASE id # openWindow' /\ id # openWindow
        BY <3>3
      <3> QED BY <3>1, <3>2, <3>3
    <2> HIDE DEF b
    <2> QED BY <2>1, <2>2
  <1> HIDE DEF b
  <1> QED BY <1>1, <1>2 DEF Queue!Sealed

(* A closing seals the open batch, as it stands when the window closes.    *)
LEMMA ClosingSeals ==
    ASSUME Consistent, NEW set, NEW t, NEW ws,
           ws \in [0 .. nextWindowId - 1 -> AWindow], ws[openWindow].realised = None,
           Commit(CloseOpenWindow(set, t, ws))
    PROVE  Queue!Sealed(BatchesOf(ws))
  <1>1. /\ DOMAIN ws = 0 .. nextWindowId - 1 /\ nextWindowId \in Nat \ {0}
        /\ \A id \in DOMAIN ws : ws[id] \in AWindow
    BY ConsistentShape DEF Shaped
  <1>2. /\ WindowIds = DOMAIN ws /\ openWindow = nextWindowId - 1
        /\ openWindow \in WindowIds
    <2>1. DOMAIN windows = 0 .. nextWindowId - 1
      BY ConsistentShape DEF Shaped
    <2> QED BY <1>1, <2>1, ConsistentShape
  <1> DEFINE r == CloseOpenWindow(set, t, ws)
             w == ws[openWindow]
             used == UsedBy(set, PlanUndelegation(set, w.owed, EntryCeiling))
  <1>3. PICK v \in AWindow : v = w
    BY <1>1, <1>2
  <1>4. PICK v1 : v1 = [v EXCEPT !.used = used]
    OBVIOUS
  <1>5. PICK c, fresh : /\ c = Close(v1, now, UnbondingPeriod)
                       /\ fresh = WindowOpen(now, WindowLength)
    OBVIOUS
  <1>6. /\ windows' = r.windows /\ openWindow' = r.open
    BY DEF Commit
  <1>7. openWindow' = nextWindowId
    BY <1>6 DEF CloseOpenWindow
  <1>8. windows' = [id \in 0 .. nextWindowId |->
                        CASE id = nextWindowId -> fresh
                          [] id = openWindow   -> c
                          [] OTHER             -> ws[id]]
    BY <1>3, <1>4, <1>5, <1>6 DEF CloseOpenWindow
  <1>9. v1.owed = v.owed /\ v1.realised = v.realised /\ v1.claimed = v.claimed
    BY <1>3, <1>4 DEF AWindow, UnbondWindow
  <1>10. /\ c.owed = v.owed /\ c.claimed = v.claimed
         /\ \/ c.realised = v.realised
            \/ v.owed = 0 /\ c.realised = 0
    <2>1. v1 = [closesAt |-> v.closesAt, maturesAt |-> v.maturesAt,
                shares |-> v.shares, owed |-> v.owed, realised |-> v.realised,
                claimed |-> v.claimed, used |-> used, state |-> v.state]
      BY <1>4 DEF AWindow, UnbondWindow
    <2>2. c = IF v1.owed = 0
              THEN [v1 EXCEPT !.state = "Settled", !.realised = 0]
              ELSE [v1 EXCEPT !.state = "Unbonding", !.maturesAt = now + UnbondingPeriod]
      BY <1>5 DEF Close
    <2> QED BY <2>1, <2>2, <1>9
  <1>11. v.realised = None /\ AsBatch(v) \in Batch
    BY <1>3, BatchTyped
  <1> HIDE DEF r, w, used
  <1>12. /\ openWindow' = openWindow + 1 /\ openWindow' \notin WindowIds
         /\ openWindow \in Nat /\ DOMAIN windows' = WindowIds \cup {openWindow'}
    BY <1>1, <1>2, <1>7, <1>8
  <1>13. AsBatch(windows'[openWindow']) = FreshBatch
    <2>1. AsBatch(fresh) = FreshBatch
      BY <1>5 DEF WindowOpen, AsBatch, FreshBatch
    <2>2. nextWindowId \in 0 .. nextWindowId /\ openWindow # nextWindowId
      BY <1>1, <1>2
    <2>3. windows'[nextWindowId] = fresh
      BY <1>8, <2>2, Zenon
    <2> QED BY <1>7, <2>1, <2>3
  <1>14. windows'[openWindow] = c
    BY <1>1, <1>2, <1>8
  <1>15. \A id \in WindowIds \ {openWindow} : windows'[id] = ws[id]
    BY <1>1, <1>2, <1>8
  <1>16. PICK b \in Batch : b = AsBatch(v)
    BY <1>11
  <1>17. \/ AsBatch(c) = b
         \/ b.owed = 0 /\ AsBatch(c) = [b EXCEPT !.returned = 0]
    BY <1>10, <1>16 DEF AsBatch
  <1> DEFINE before == BatchesOf(ws)
  <1>18. /\ DOMAIN before = WindowIds /\ before[openWindow] = b
         /\ \A id \in WindowIds \ {openWindow} : before[id] = AsBatch(ws[id])
    BY <1>2, <1>3, <1>16 DEF BatchesOf, w
  <1> HIDE DEF before
  <1>19. \/ AsBatch(windows'[openWindow]) = before[openWindow]
         \/ /\ before[openWindow].owed = 0
            /\ AsBatch(windows'[openWindow])
                   = [before[openWindow] EXCEPT !.returned = 0]
    BY <1>14, <1>17, <1>18, Zenon
  <1>20. Queue!Sealed(before)
    BY <1>2, <1>12, <1>13, <1>15, <1>18, <1>19, SealedBy
  <1> QED BY <1>20 DEF before

(* A step that touches no window and no claim is a stutter of the promise. *)
LEMMA QuietIsStutter ==
    ASSUME UNCHANGED <<windows, openWindow, claims>>
    PROVE  UNCHANGED Queue!vars
  BY DEF Queue!vars, Batches, Receipts, WindowIds

(* A closing that nothing joins seals the open batch.                      *)
LEMMA ClosingIsSeal ==
    ASSUME Consistent, NEW set, NEW t, claims' = claims,
           \/ Commit(CloseOpenWindow(set, t, windows))
           \/ Commit(StayOpen(set, t, windows))
    PROVE  [Queue!Next]_(Queue!vars)
  <1>1. CASE Commit(CloseOpenWindow(set, t, windows))
    <2>1. /\ windows \in [0 .. nextWindowId - 1 -> AWindow]
          /\ windows[openWindow].realised = None
      BY ConsistentShape DEF Consistent, Books, RealisedLate, Shaped
    <2>2. Queue!Sealed(BatchesOf(windows))
      BY <1>1, <2>1, ClosingSeals
    <2>3. Queue!Sealed(Batches)
      BY <2>2, BatchesAreWindows
    <2>4. Receipts' = Receipts
      BY DEF Receipts
    <2> QED BY <2>3, <2>4 DEF Queue!Seal, Queue!Next
  <1>2. CASE Commit(StayOpen(set, t, windows))
    <2>1. UNCHANGED <<windows, openWindow>>
      BY <1>2 DEF Commit, StayOpen
    <2> QED BY <2>1, QuietIsStutter
  <1> QED BY <1>1, <1>2

(* What becomes of a batch when a collection or a claim matures windows.   *)
LEMMA MaturingReturns ==
    ASSUME Consistent, NEW ids \in SUBSET DueWindows, NEW id \in WindowIds
    PROVE  LET w == windows[id]
               m == MaturedWindows(ids)[id]
           IN  /\ m.owed = w.owed /\ m.claimed = w.claimed
               /\ \/ m.realised = w.realised
                  \/ /\ id < openWindow /\ w.realised = None
                     /\ m.realised \in 0 .. w.owed
  <1> DEFINE w == windows[id]
             m == MaturedWindows(ids)[id]
  <1>1. w \in AWindow /\ w.owed \in Nat
    BY ConsistentShape, WindowFields
  <1>2. CASE id \in ids
    <2>1. /\ m.owed = w.owed /\ m.claimed = w.claimed
          /\ w.state = "Unbonding" /\ w.realised = None
          /\ m.realised \in Nat /\ m.realised <= m.owed
      BY <1>2, CollectedFigures
    <2>2. id < openWindow
      <3>1. /\ windows[openWindow].state = "Open" /\ openWindow = nextWindowId - 1
            /\ DOMAIN windows = 0 .. nextWindowId - 1 /\ nextWindowId \in Nat \ {0}
            /\ id \in DOMAIN windows
        BY ConsistentShape DEF Shaped
      <3>2. id # openWindow
        BY <2>1, <3>1
      <3> QED BY <3>1, <3>2
    <2> HIDE DEF w, m
    <2>3. m.realised \in 0 .. w.owed
      BY <1>1, <2>1
    <2> QED BY <2>1, <2>2, <2>3 DEF w, m
  <1>3. CASE id \notin ids
    <2>1. m = w
      BY <1>3, CollectedFigures
    <2> QED BY <2>1
  <1> QED BY <1>2, <1>3

(* A collection brings batches back and does nothing else.                 *)
LEMMA CollectionIsArrival ==
    ASSUME Consistent, NEW limit, CollectMatured(limit)
    PROVE  Queue!Arrive
  <1> DEFINE ids == Collected(limit)
             ws  == MaturedWindows(ids)
  <1>1. ids \in SUBSET DueWindows
    BY DEF Collected
  <1>2. UNCHANGED <<openWindow, claims>> /\ windows' = ws
    BY DEF CollectMatured
  <1> HIDE DEF ids
  <1>3. DOMAIN ws = WindowIds
    BY <1>1, CollectedFigures
  <1>4. \A id \in WindowIds :
          /\ ws[id].owed = windows[id].owed /\ ws[id].claimed = windows[id].claimed
          /\ \/ ws[id].realised = windows[id].realised
             \/ /\ id < openWindow /\ windows[id].realised = None
                /\ ws[id].realised \in 0 .. windows[id].owed
    BY <1>1, MaturingReturns
  <1> HIDE DEF ws
  <1>5. /\ DOMAIN Batches = WindowIds /\ DOMAIN Batches' = WindowIds
        /\ \A id \in WindowIds :
             /\ Batches[id] = [owed |-> windows[id].owed,
                               returned |-> windows[id].realised,
                               paid |-> windows[id].claimed]
             /\ Batches'[id] = [owed |-> ws[id].owed, returned |-> ws[id].realised,
                                paid |-> ws[id].claimed]
    BY <1>2, <1>3 DEF Batches, WindowIds
  <1>6. ASSUME NEW id \in WindowIds
        PROVE  /\ Queue!Returns(id)
               /\ Batches'[id] = [Batches[id] EXCEPT !.returned = Batches'[id].returned]
    <2>1. PICK b : b = Batches[id]
      OBVIOUS
    <2>2. PICK c : c = Batches'[id]
      OBVIOUS
    <2>3. /\ b = [owed |-> windows[id].owed, returned |-> windows[id].realised,
                  paid |-> windows[id].claimed]
          /\ c = [owed |-> ws[id].owed, returned |-> ws[id].realised,
                  paid |-> ws[id].claimed]
      BY <1>5, <2>1, <2>2
    <2>4. c = [b EXCEPT !.returned = c.returned]
      BY <1>4, <2>3
    <2>5. \/ c.returned = b.returned
          \/ id < openWindow /\ b.returned = None /\ c.returned \in 0 .. b.owed
      BY <1>4, <2>3
    <2> QED BY <2>1, <2>2, <2>4, <2>5, Zenon DEF Queue!Returns
  <1>7. Receipts' = Receipts
    BY <1>2 DEF Receipts
  <1> QED BY <1>2, <1>5, <1>6, <1>7 DEF Queue!Arrive

-----------------------------------------------------------------------------
(* Requests.                                                               *)

(* The receipts after record_claim: the account's receipt on the open      *)
(* batch has grown by what was owed, and is unpaid.                        *)
LEMMA ReceiptGrows ==
    ASSUME Consistent, NEW u \in Users, NEW shares \in Nat, NEW owed \in Nat,
           claims' = [claims EXCEPT ![u] = RecordClaim(u, openWindow, shares, owed)]
    PROVE  LET was == IF openWindow \in DOMAIN Receipts[u]
                      THEN Receipts[u][openWindow].owed ELSE 0
           IN  /\ was \in Nat /\ openWindow \in DOMAIN Receipts'[u]
               /\ Receipts'[u][openWindow].owed = was + owed
               /\ Receipts' = [Receipts EXCEPT ![u] =
                    [id \in DOMAIN Receipts[u] \cup {openWindow} |->
                        IF id = openWindow THEN [owed |-> was + owed, paid |-> FALSE]
                        ELSE Receipts[u][id]]]
  <1> DEFINE was == IF openWindow \in DOMAIN Receipts[u]
                    THEN Receipts[u][openWindow].owed ELSE 0
             c   == RecordClaim(u, openWindow, shares, owed)
             grown == [id \in DOMAIN Receipts[u] \cup {openWindow} |->
                        IF id = openWindow THEN [owed |-> was + owed, paid |-> FALSE]
                        ELSE Receipts[u][id]]
  <1>1. /\ DOMAIN claims = Users /\ windows[openWindow].state = "Open"
        /\ \A x \in Users : \A id \in DOMAIN claims[x] : claims[x][id] \in ClaimRecord
    BY ConsistentShape DEF Shaped
  <1>2. /\ \A x \in Users : Receipts[x] = [id \in DOMAIN claims[x] |->
             [owed |-> claims[x][id].owed, paid |-> claims[x][id].claimed]]
        /\ \A x \in Users : Receipts'[x] = [id \in DOMAIN claims'[x] |->
             [owed |-> claims'[x][id].owed, paid |-> claims'[x][id].claimed]]
        /\ DOMAIN Receipts = Users /\ DOMAIN Receipts' = Users
        /\ Receipts' = [x \in Users |-> Receipts'[x]]
    BY DEF Receipts
  <1>3. claims'[u] = c /\ \A x \in Users \ {u} : claims'[x] = claims[x]
    BY <1>1
  <1>4. /\ DOMAIN c = DOMAIN claims[u] \cup {openWindow}
        /\ \A id \in DOMAIN claims[u] \ {openWindow} : c[id] = claims[u][id]
    BY DEF RecordClaim
  <1>5. /\ was \in Nat /\ c[openWindow].owed = was + owed
        /\ c[openWindow].claimed = FALSE
    <2>1. CASE openWindow \in DOMAIN claims[u]
      <3>1. PICK k \in ClaimRecord : k = claims[u][openWindow]
        BY <1>1, <2>1
      <3>2. c[openWindow] = [k EXCEPT !.shares = @ + shares, !.owed = @ + owed]
        BY <2>1, <3>1 DEF RecordClaim
      <3>3. ~k.claimed
        BY <1>1, <2>1, <3>1 DEF Consistent, Books, PaidLate
      <3>4. was = k.owed /\ k.owed \in Nat /\ k.claimed \in BOOLEAN
        BY <1>2, <2>1, <3>1 DEF ClaimRecord
      <3>5. c[openWindow].owed = k.owed + owed /\ c[openWindow].claimed = k.claimed
        <4> HIDE DEF c
        <4> QED BY <3>2 DEF ClaimRecord
      <3> HIDE DEF was, c
      <3> QED BY <3>3, <3>4, <3>5
    <2>2. CASE openWindow \notin DOMAIN claims[u]
      <3>1. c[openWindow] = [shares |-> shares, owed |-> owed, claimed |-> FALSE]
        BY <2>2 DEF RecordClaim
      <3>2. was = 0
        BY <1>2, <2>2
      <3> HIDE DEF was, c
      <3> QED BY <3>1, <3>2
    <2> QED BY <2>1, <2>2
  <1> HIDE DEF was, c
  <1>6. Receipts'[u] = grown
    <2>1. /\ DOMAIN Receipts[u] = DOMAIN claims[u]
          /\ \A id \in DOMAIN claims[u] : Receipts[u][id] =
               [owed |-> claims[u][id].owed, paid |-> claims[u][id].claimed]
      BY <1>2
    <2>2. Receipts'[u] = [id \in DOMAIN claims[u] \cup {openWindow} |->
                [owed |-> c[id].owed, paid |-> c[id].claimed]]
      BY <1>2, <1>3, <1>4
    <2>3. ASSUME NEW id \in DOMAIN claims[u] \cup {openWindow}
          PROVE  [owed |-> c[id].owed, paid |-> c[id].claimed] =
                    IF id = openWindow THEN [owed |-> was + owed, paid |-> FALSE]
                    ELSE Receipts[u][id]
      BY <1>4, <1>5, <2>1
    <2> QED BY <2>1, <2>2, <2>3
  <1>7. ASSUME NEW x \in Users \ {u} PROVE Receipts'[x] = Receipts[x]
    <2>1. PICK own : own = claims[x] /\ own = claims'[x]
      BY <1>3
    <2>2. /\ Receipts[x] = [id \in DOMAIN own |->
                              [owed |-> own[id].owed, paid |-> own[id].claimed]]
          /\ Receipts'[x] = [id \in DOMAIN own |->
                               [owed |-> own[id].owed, paid |-> own[id].claimed]]
      BY <1>2, <2>1
    <2> QED BY <2>2
  <1> HIDE DEF grown
  <1>8. Receipts' = [Receipts EXCEPT ![u] = grown]
    BY <1>2, <1>6, <1>7
  <1>9. /\ openWindow \in DOMAIN Receipts'[u]
        /\ Receipts'[u][openWindow].owed = was + owed
    BY <1>6 DEF grown
  <1> QED BY <1>5, <1>8, <1>9 DEF was, grown

(* A withdrawal request.                                                   *)
LEMMA UnbondIsRequest ==
    ASSUME Consistent, NEW u \in Users, NEW shares \in Requests, Unbond(u, shares)
    PROVE  Queue!Request(u)
  <1> DEFINE owed == AssetsForShares(shares, RequestPool)
             t    == [RefreshedTotals EXCEPT !.supply = SatSub(@, shares),
                                             !.owedOpen = @ + owed]
             ws   == [windows EXCEPT ![openWindow].shares = @ + shares,
                                     ![openWindow].owed = @ + owed]
             was  == IF openWindow \in DOMAIN Receipts[u]
                     THEN Receipts[u][openWindow].owed ELSE 0
             joined == [Batches EXCEPT ![openWindow].owed = @ + owed]
  <1>1. shares \in Nat /\ TypedParts
    BY InputsNat, PartsMakeTypeInv DEF Consistent
  <1>2. owed \in Nat /\ owed > 0
    <2>1. RefreshedTotals \in TotalsCache
      BY <1>1, RefreshTyped
    <2>2. RequestPool \in PoolTotals
      BY <1>1, <2>1, PoolTyped DEF RequestPool, TypedParts, TypedChain
    <2>3. owed > 0
      BY DEF Unbond, RequestAccepted
    <2> QED BY <1>1, <2>2, <2>3, AssetsForSharesNat
  <1>3. \/ Commit(CloseOpenWindow(RefreshedSet, t, ws))
        \/ Commit(StayOpen(RefreshedSet, t, ws))
    BY DEF Unbond, RequestPlaced, CloseWindowIfOverdue
  <1>4. claims' = [claims EXCEPT ![u] = RecordClaim(u, openWindow, shares, owed)]
    BY DEF Unbond
  <1> HIDE DEF owed, t
  <1>5. /\ was \in Nat /\ openWindow \in DOMAIN Receipts'[u]
        /\ Receipts'[u][openWindow].owed = was + owed
        /\ Receipts' = [Receipts EXCEPT ![u] =
              [id \in DOMAIN Receipts[u] \cup {openWindow} |->
                  IF id = openWindow THEN [owed |-> was + owed, paid |-> FALSE]
                  ELSE Receipts[u][id]]]
    BY <1>1, <1>2, <1>4, ReceiptGrows, ZenonT(30)
  <1>6. PICK w \in AWindow : w = windows[openWindow] /\ openWindow \in DOMAIN windows
    BY ConsistentShape
  <1>7. PICK j : j = [w EXCEPT !.shares = @ + shares, !.owed = @ + owed]
    OBVIOUS
  <1>8. /\ j \in AWindow /\ j.owed = w.owed + owed
        /\ j.shares = w.shares + shares /\ j.claimed = w.claimed
        /\ j.state = w.state /\ j.realised = w.realised
    <2>1. w.owed + owed \in Nat /\ w.shares + shares \in Nat
      BY <1>1, <1>2, WindowFields
    <2> QED BY <1>7, <2>1 DEF AWindow, UnbondWindow
  <1>9. ws = [windows EXCEPT ![openWindow] = j]
    BY <1>6, <1>7
  <1> HIDE DEF ws
  <1>10. joined = BatchesOf(ws)
    <2>1. PICK b : b = AsBatch(w)
      OBVIOUS
    <2>2. AsBatch(j) = [b EXCEPT !.owed = @ + owed]
      BY <1>8, <2>1 DEF AsBatch
    <2>3. Batches = BatchesOf(windows) /\ Batches[openWindow] = b
      BY <1>6, <2>1, BatchesAreWindows DEF BatchesOf
    <2>4. joined = [Batches EXCEPT ![openWindow] = AsBatch(j)]
      BY <2>2, <2>3
    <2>5. BatchesOf(ws) = [Batches EXCEPT ![openWindow] = AsBatch(j)]
      BY <1>6, <1>9, <2>3 DEF BatchesOf
    <2> QED BY <2>4, <2>5
  <1> HIDE DEF joined
  <1>11. \/ Batches' = joined /\ openWindow' = openWindow
         \/ Queue!Sealed(joined)
    <2>1. CASE Commit(StayOpen(RefreshedSet, t, ws))
      <3>1. windows' = ws /\ openWindow' = openWindow
        BY <2>1 DEF Commit, StayOpen
      <3>2. BatchesOf(windows') = BatchesOf(ws)
        BY <3>1
      <3> QED BY <1>10, <3>1, <3>2, BatchesAreWindows
    <2>2. CASE Commit(CloseOpenWindow(RefreshedSet, t, ws))
      <3>1. /\ windows \in [0 .. nextWindowId - 1 -> AWindow]
            /\ windows[openWindow].realised = None
        BY ConsistentShape DEF Consistent, Books, RealisedLate, Shaped
      <3>2. ws \in [0 .. nextWindowId - 1 -> AWindow]
        BY <1>8, <1>9, <3>1
      <3>3. ws[openWindow].realised = None
        BY <1>6, <1>8, <1>9, <3>1
      <3>4. Queue!Sealed(BatchesOf(ws))
        BY <2>2, <3>2, <3>3, ClosingSeals
      <3> QED BY <1>10, <3>4
    <2> QED BY <1>3, <2>1, <2>2
  <1>12. Receipts'[u][openWindow].owed - was = owed
    BY <1>2, <1>5
  <1> HIDE DEF was
  <1> QED BY <1>2, <1>5, <1>11, <1>12 DEF Queue!Request, was, joined

-----------------------------------------------------------------------------
(* Claims.                                                                 *)

(* What payout_for_claim pays is the receipt's share of what came back.    *)
LEMMA PayoutIsShare ==
    ASSUME NEW w \in AWindow, w.realised # None, NEW owed \in Nat,
           w.owed = 0 => owed = 0
    PROVE  PayoutForClaim(w, owed) = Queue!Share(AsBatch(w), owed)
  <1>1. w.realised \in Nat /\ w.owed \in Nat /\ Payable(w) = w.realised
    BY DEF AWindow, UnbondWindow, Payable
  <1>2. PICK q \in Nat, r \in Nat : q = w.owed /\ r = w.realised
    BY <1>1
  <1>3. Queue!Share(AsBatch(w), owed) = IF q = 0 THEN 0 ELSE (owed * r) \div q
    BY <1>2 DEF Queue!Share, AsBatch
  <1>4. PayoutForClaim(w, owed) = IF r = q THEN owed
                                  ELSE IF q = 0 THEN 0 ELSE (owed * r) \div q
    BY <1>1, <1>2 DEF PayoutForClaim, MulDivFloor
  <1>5. ASSUME q # 0 PROVE (owed * q) \div q = owed
    BY <1>5
  <1> QED BY <1>2, <1>3, <1>4, <1>5

(* The receipts after a claim: those it pays are marked.                   *)
LEMMA ReceiptsMarked ==
    ASSUME Consistent, NEW u \in Users, NEW ids,
           claims' = [claims EXCEPT ![u] = ClaimsAfter(u, ids)]
    PROVE  /\ DOMAIN Receipts'[u] = DOMAIN Receipts[u]
           /\ Queue!Paying(u) = Paying(u, ids)
           /\ Receipts' = [Receipts EXCEPT ![u] =
                [id \in DOMAIN Receipts[u] |->
                    [Receipts[u][id] EXCEPT !.paid = @ \/ id \in Queue!Paying(u)]]]
  <1> DEFINE c == ClaimsAfter(u, ids)
             P == Paying(u, ids)
             marked == [id \in DOMAIN Receipts[u] |->
                    [Receipts[u][id] EXCEPT !.paid = @ \/ id \in P]]
  <1>1. /\ DOMAIN claims = Users
        /\ \A x \in Users : \A id \in DOMAIN claims[x] : claims[x][id] \in ClaimRecord
    BY ConsistentShape DEF Shaped
  <1>2. /\ \A x \in Users : Receipts[x] = [id \in DOMAIN claims[x] |->
             [owed |-> claims[x][id].owed, paid |-> claims[x][id].claimed]]
        /\ \A x \in Users : Receipts'[x] = [id \in DOMAIN claims'[x] |->
             [owed |-> claims'[x][id].owed, paid |-> claims'[x][id].claimed]]
        /\ DOMAIN Receipts = Users /\ DOMAIN Receipts' = Users
        /\ Receipts' = [x \in Users |-> Receipts'[x]]
    BY DEF Receipts
  <1>3. claims'[u] = c /\ \A x \in Users \ {u} : claims'[x] = claims[x]
    BY <1>1
  <1>4. DOMAIN c = DOMAIN claims[u] /\ P \subseteq DOMAIN claims[u]
    BY DEF ClaimsAfter, Paying, Unpaid
  <1>5. ASSUME NEW id \in DOMAIN claims[u]
        PROVE  /\ c[id].owed = claims[u][id].owed
               /\ id \in P => c[id].claimed = TRUE /\ ~claims[u][id].claimed
               /\ id \notin P => c[id].claimed = claims[u][id].claimed
    <2>1. PICK k \in ClaimRecord : k = claims[u][id]
      BY <1>1
    <2>2. CASE id \in P
      <3>1. c[id] = [k EXCEPT !.claimed = TRUE]
        BY <2>1, <2>2 DEF ClaimsAfter
      <3>2. ~k.claimed
        BY <2>1, <2>2 DEF Paying, Unpaid
      <3> HIDE DEF c, P
      <3>3. c[id].owed = k.owed /\ c[id].claimed = TRUE
        BY <3>1 DEF ClaimRecord
      <3> QED BY <2>1, <2>2, <3>2, <3>3
    <2>3. CASE id \notin P
      <3>1. c[id] = claims[u][id]
        BY <2>3 DEF ClaimsAfter
      <3> HIDE DEF c, P
      <3> QED BY <2>3, <3>1
    <2> QED BY <2>2, <2>3
  <1> HIDE DEF c, P
  <1>6. /\ DOMAIN Receipts[u] = DOMAIN claims[u] /\ DOMAIN Receipts'[u] = DOMAIN claims[u]
        /\ \A id \in DOMAIN claims[u] : Receipts[u][id] =
               [owed |-> claims[u][id].owed, paid |-> claims[u][id].claimed]
        /\ \A id \in DOMAIN claims[u] : Receipts'[u][id] =
               [owed |-> c[id].owed, paid |-> c[id].claimed]
        /\ Receipts'[u] = [id \in DOMAIN claims[u] |-> Receipts'[u][id]]
    BY <1>2, <1>3, <1>4
  <1>7. Queue!Paying(u) = P
    <2>1. ASSUME NEW id \in DOMAIN claims[u]
          PROVE  (Receipts'[u][id].paid /\ ~Receipts[u][id].paid) <=> id \in P
      <3>1. PICK a, b : a = Receipts[u][id] /\ b = Receipts'[u][id]
        OBVIOUS
      <3>2. /\ a = [owed |-> claims[u][id].owed, paid |-> claims[u][id].claimed]
            /\ b = [owed |-> c[id].owed, paid |-> c[id].claimed]
        BY <1>6, <3>1
      <3>3. b.paid = c[id].claimed /\ a.paid = claims[u][id].claimed
        BY <3>2
      <3> QED BY <1>5, <3>1, <3>3, Zenon
    <2> QED BY <1>4, <1>6, <2>1 DEF Queue!Paying
  <1>8. Receipts'[u] = marked
    <2>1. ASSUME NEW id \in DOMAIN claims[u]
          PROVE  Receipts'[u][id] = [Receipts[u][id] EXCEPT !.paid = @ \/ id \in P]
      <3>1. PICK k : k = claims[u][id].owed
        OBVIOUS
      <3>2. PICK m \in BOOLEAN : m = claims[u][id].claimed
        BY <1>1 DEF ClaimRecord
      <3>3. PICK b : b = [owed |-> k, paid |-> m]
        OBVIOUS
      <3>4. Receipts[u][id] = b
        BY <1>6, <3>1, <3>2, <3>3
      <3>5. [b EXCEPT !.paid = @ \/ id \in P] = [owed |-> k, paid |-> m \/ id \in P]
        BY <3>3
      <3>6. c[id].claimed = (m \/ id \in P)
        BY <1>5, <3>2
      <3>7. Receipts'[u][id] = [owed |-> k, paid |-> m \/ id \in P]
        BY <1>5, <1>6, <3>1, <3>6, ZenonT(30)
      <3> QED BY <3>4, <3>5, <3>7
    <2> QED BY <1>6, <2>1
  <1> HIDE DEF marked
  <1>9. ASSUME NEW x \in Users \ {u} PROVE Receipts'[x] = Receipts[x]
    <2>1. PICK own : own = claims[x] /\ own = claims'[x]
      BY <1>3
    <2>2. /\ Receipts[x] = [id \in DOMAIN own |->
                              [owed |-> own[id].owed, paid |-> own[id].claimed]]
          /\ Receipts'[x] = [id \in DOMAIN own |->
                               [owed |-> own[id].owed, paid |-> own[id].claimed]]
      BY <1>2, <2>1
    <2> QED BY <2>2
  <1>10. Receipts' = [Receipts EXCEPT ![u] = marked]
    BY <1>2, <1>8, <1>9
  <1> QED BY <1>6, <1>7, <1>10 DEF marked, P

(* A claim on one batch: it stays, comes back, or pays the receipt.        *)
LEMMA BatchSettled ==
    ASSUME Consistent, NEW u \in Users, NEW ids, NEW id \in WindowIds,
           windows' = WindowsAfterClaim(u, ids)
    PROVE  LET due == IF id \notin Paying(u, ids) THEN 0
                      ELSE Queue!Share(Batches'[id], Receipts[u][id].owed)
           IN  /\ Queue!Returns(id)
               /\ id \in Paying(u, ids) => Batches'[id].returned # None
               /\ Batches'[id] = [Batches[id] EXCEPT
                    !.returned = Batches'[id].returned, !.paid = @ + due]
               /\ id \in Paying(u, ids) => Batches'[id].paid <= Batches'[id].returned
  <1> DEFINE at == WindowsAtClaim
             ws == WindowsAfterClaim(u, ids)
             P  == Paying(u, ids)
             due == IF id \notin P THEN 0
                    ELSE Queue!Share(Batches'[id], Receipts[u][id].owed)
  <1>1. PICK w \in AWindow : w = windows[id]
    BY ConsistentShape
  <1>2. PICK a \in AWindow : a = at[id]
    BY ClaimedFigures
  <1>3. PICK v \in AWindow : v = ws[id]
    BY ClaimedFigures
  <1>4. /\ a.owed = w.owed /\ a.claimed = w.claimed
        /\ \/ a.realised = w.realised
           \/ /\ id < openWindow /\ w.realised = None
              /\ a.realised \in 0 .. w.owed
    BY <1>1, <1>2, MaturingReturns DEF WindowsAtClaim
  <1>5. v.owed = a.owed /\ v.realised = a.realised
    BY <1>2, <1>3, ClaimedFigures
  <1>6. PICK b : b = Batches[id]
    OBVIOUS
  <1>7. PICK c : c = Batches'[id]
    OBVIOUS
  <1>8. b = AsBatch(w) /\ c = AsBatch(v)
    <2>1. DOMAIN windows' = WindowIds /\ windows'[id] = ws[id]
      BY ClaimedFigures
    <2>2. Batches[id] = AsBatch(windows[id])
      BY BatchesAreWindows DEF BatchesOf, WindowIds
    <2>3. Batches'[id] = AsBatch(windows'[id])
      BY <2>1, BatchesAreWindows DEF BatchesOf
    <2> HIDE DEF ws
    <2> QED BY <1>1, <1>3, <1>6, <1>7, <2>1, <2>2, <2>3
  <1>9. /\ b = [owed |-> w.owed, returned |-> w.realised, paid |-> w.claimed]
        /\ c = [owed |-> v.owed, returned |-> v.realised, paid |-> v.claimed]
    BY <1>8 DEF AsBatch
  <1>10. Queue!Returns(id)
    <2>1. \/ c.returned = b.returned
          \/ id < openWindow /\ b.returned = None /\ c.returned \in 0 .. b.owed
      BY <1>4, <1>5, <1>9
    <2> QED BY <1>6, <1>7, <2>1, Zenon DEF Queue!Returns
  <1>11. w.claimed \in Nat
    BY WindowFields
  <1> HIDE DEF at, ws
  <1>12. ASSUME id \in P
         PROVE  b.paid + due = v.claimed /\ c.returned # None /\ c.paid <= c.returned
    <2>1. /\ a.state = "Matured" /\ id \in DOMAIN claims[u]
          /\ v.claimed = a.claimed + PayoutAt(u, id)
          /\ PayoutAt(u, id) = PayoutForClaim(a, claims[u][id].owed)
      <3>1. /\ P \subseteq DOMAIN claims[u] /\ P \subseteq In(at, "Matured")
            /\ ws[id].claimed = at[id].claimed + PayoutAt(u, id)
        BY <1>12, ClaimedFigures DEF at, ws
      <3>2. PayoutAt(u, id) = PayoutForClaim(a, claims[u][id].owed)
        BY <1>2 DEF PayoutAt, at
      <3> HIDE DEF P
      <3> QED BY <1>2, <1>3, <1>12, <3>1, <3>2 DEF In
    <2>2. /\ Shaped(ws, nextWindowId, [claims EXCEPT ![u] = ClaimsAfter(u, ids)])
          /\ ClaimsAgree(ws, [claims EXCEPT ![u] = ClaimsAfter(u, ids)], id)
          /\ DOMAIN ws = WindowIds
      BY PayingKeepsAccounts, ClaimedFigures DEF ws
    <2>3. v.claimed <= Payable(v)
      BY <1>3, <2>2, NeverOverpaid
    <2>4. a.realised # None
      <3>1. RealisedLate(at) /\ DOMAIN at = WindowIds
        BY CollectKeepsBooks, ClaimedFigures DEF WindowsAtClaim, Books, at
      <3> QED BY <1>2, <2>1, <3>1 DEF RealisedLate
    <2>5. /\ claims[u][id].owed \in Nat /\ Receipts[u][id].owed = claims[u][id].owed
          /\ a.owed = 0 => claims[u][id].owed = 0
      <3>1. /\ Shaped(windows, nextWindowId, claims) /\ id \in DOMAIN windows
            /\ ClaimsAgree(windows, claims, id)
        BY ConsistentShape DEF Consistent, Books
      <3>2. OwedTo(claims, id) \in [Users -> Nat]
        BY <3>1, ShapedNumbers
      <3>3. OwedTo(claims, id)[u] <= SumFunctionOnSet(OwedTo(claims, id), Users)
        BY <3>2, FiniteConstants, SumCovers
      <3>4. OwedTo(claims, id)[u] = claims[u][id].owed
        BY <2>1 DEF OwedTo
      <3>5. claims[u][id].owed <= w.owed /\ claims[u][id].owed \in Nat
        BY <1>1, <3>1, <3>2, <3>3, <3>4 DEF ClaimsAgree
      <3>6. Receipts[u][id].owed = claims[u][id].owed
        BY <2>1 DEF Receipts
      <3> QED BY <1>4, <3>5, <3>6
    <2>6. PayoutAt(u, id) = Queue!Share(AsBatch(a), claims[u][id].owed)
      BY <2>1, <2>4, <2>5, PayoutIsShare
    <2>7. Queue!Share(AsBatch(a), claims[u][id].owed) = Queue!Share(c, claims[u][id].owed)
      BY <1>5, <1>9 DEF Queue!Share, AsBatch
    <2>8. due = PayoutAt(u, id)
      BY <1>7, <1>12, <2>5, <2>6, <2>7
    <2> HIDE DEF due
    <2>9. b.paid + due = v.claimed
      BY <1>4, <1>9, <2>1, <2>8
    <2>10. c.returned # None /\ c.paid <= c.returned
      BY <1>5, <1>9, <2>3, <2>4 DEF Payable
    <2> QED BY <2>9, <2>10
  <1>13. ASSUME id \notin P PROVE b.paid + due = v.claimed
    <2>1. v = a
      BY <1>2, <1>3, <1>13, ClaimedFigures DEF at, ws
    <2>2. due = 0
      BY <1>13
    <2> HIDE DEF due
    <2>3. b.paid + due = v.claimed
      BY <1>4, <1>9, <1>11, <2>1, <2>2
    <2> QED BY <2>3
  <1>14. /\ b.paid + due = v.claimed
         /\ id \in P => c.returned # None /\ c.paid <= c.returned
    BY <1>12, <1>13
  <1> HIDE DEF due, P
  <1>15. c = [b EXCEPT !.returned = c.returned, !.paid = @ + due]
    <2>1. PICK o, r, p, q, s : /\ o = w.owed /\ r = w.realised /\ p = w.claimed
                               /\ q = b.paid + due /\ s = c.returned
      OBVIOUS
    <2>2. b = [owed |-> o, returned |-> r, paid |-> p]
      BY <1>9, <2>1
    <2>3. PICK d : d = [b EXCEPT !.returned = s]
      OBVIOUS
    <2>4. d = [owed |-> o, returned |-> s, paid |-> p]
      BY ONLY <2>2, <2>3
    <2>5. PICK e : e = [d EXCEPT !.paid = q]
      OBVIOUS
    <2>6. e = [owed |-> o, returned |-> s, paid |-> q]
      BY ONLY <2>4, <2>5
    <2>7. e = c
      BY <1>4, <1>5, <1>9, <1>14, <2>1, <2>6
    <2> QED BY <2>1, <2>3, <2>5, <2>7, Zenon
  <1> QED BY <1>6, <1>7, <1>10, <1>14, <1>15 DEF due, P

(* A claim settles receipts.                                               *)
LEMMA ClaimIsSettlement ==
    ASSUME Consistent, NEW u \in Users, NEW list, ClaimMatured(u, list)
    PROVE  Queue!Settle(u)
  <1> DEFINE ids == ClaimIds(u, list)
             P   == Paying(u, ids)
  <1>1. /\ windows' = WindowsAfterClaim(u, ids) /\ openWindow' = openWindow
        /\ claims' = [claims EXCEPT ![u] = ClaimsAfter(u, ids)]
        /\ PaidTo(u, ids) > 0
    BY DEF ClaimMatured, ClaimAccepted
  <1> HIDE DEF ids
  <1>2. P # {}
    <2>1. SUFFICES ASSUME P = {} PROVE FALSE
      OBVIOUS
    <2>2. PaidTo(u, ids) = 0
      BY <2>1, SumEmpty DEF PaidTo
    <2> QED BY <1>1, <2>2
  <1>3. /\ DOMAIN Receipts'[u] = DOMAIN Receipts[u]
        /\ Queue!Paying(u) = P
        /\ Receipts' = [Receipts EXCEPT ![u] =
                [id \in DOMAIN Receipts[u] |->
                    [Receipts[u][id] EXCEPT !.paid = @ \/ id \in Queue!Paying(u)]]]
    BY <1>1, ReceiptsMarked
  <1>4. DOMAIN Batches = WindowIds /\ DOMAIN Batches' = WindowIds
    <2>1. DOMAIN windows' = WindowIds
      BY <1>1, ClaimedFigures
    <2> QED BY <2>1 DEF Batches, WindowIds
  <1>5. ASSUME NEW id \in DOMAIN Batches
        PROVE  LET due == IF id \notin P THEN 0
                          ELSE Queue!Share(Batches'[id], Receipts[u][id].owed)
               IN  /\ Queue!Returns(id)
                   /\ id \in P => Batches'[id].returned # None
                   /\ Batches'[id] = [Batches[id] EXCEPT
                        !.returned = Batches'[id].returned, !.paid = @ + due]
                   /\ id \in P => Batches'[id].paid <= Batches'[id].returned
    BY <1>1, <1>4, BatchSettled
  <1> HIDE DEF P
  <1> QED BY <1>1, <1>2, <1>3, <1>4, <1>5 DEF Queue!Settle

-----------------------------------------------------------------------------
(* The promise is empty-handed at instantiation.                           *)
LEMMA PromiseInit == Init => Queue!Init
  <1> SUFFICES ASSUME Init PROVE Queue!Init
    OBVIOUS
  <1>1. /\ windows = [id \in {0} |-> WindowOpen(now, WindowLength)] /\ openWindow = 0
        /\ claims = [u \in Users |-> [id \in {} |-> {}]]
    BY DEF Init
  <1>2. Batches = [id \in {0} |-> [owed |-> 0, returned |-> None, paid |-> 0]]
    BY <1>1 DEF Batches, WindowIds, WindowOpen
  <1>3. Receipts = [u \in Users |-> [id \in {} |-> {}]]
    BY <1>1 DEF Receipts
  <1> QED BY <1>1, <1>2, <1>3 DEF Queue!Init

(* Every step of the contract is one of the promise's, or a stutter.       *)
LEMMA PromiseStep == Consistent /\ [Next]_vars => [Queue!Next]_(Queue!vars)
  <1> SUFFICES ASSUME Consistent, [Next]_vars PROVE [Queue!Next]_(Queue!vars)
    OBVIOUS
  <1>1. ASSUME NEW u \in Users, NEW amount \in Deposits, Deposit(u, amount)
        PROVE  [Queue!Next]_(Queue!vars)
    <2>1. Commit(DepositPlaced(amount)) /\ claims' = claims
      BY <1>1 DEF Deposit
    <2> QED BY <2>1, ClosingIsSeal DEF DepositPlaced, CloseWindowIfOverdue
  <1>2. ASSUME AdvanceWindow PROVE [Queue!Next]_(Queue!vars)
    <2>1. /\ Commit(CloseOpenWindow(validators, totals, windows))
          /\ claims' = claims
      BY <1>2 DEF AdvanceWindow
    <2> QED BY <2>1, ClosingIsSeal
  <1>3. CASE UNCHANGED <<windows, openWindow, claims>>
    BY <1>3, QuietIsStutter
  <1>4. CASE UserAction
    BY <1>1, <1>3, <1>4, UnbondIsRequest, ClaimIsSettlement
       DEF UserAction, Bootstrap, queueVars, Queue!Next
  <1>5. CASE UpkeepAction
    BY <1>2, <1>3, <1>5, CollectionIsArrival
       DEF UpkeepAction, Sync, Compound, queueVars, Queue!Next
  <1>6. CASE ManagerAction \/ ChainAction \/ UNCHANGED vars
    BY <1>3, <1>6 DEF ManagerAction, SetWeights, SetPerformanceFee, Rebalance,
       SetPaused, Migrate, ChainAction, NextBlock, Slash, AccrueRewards,
       BurnOwnShares, Donate, contractVars, queueVars, vars
  <1> QED BY <1>4, <1>5, <1>6 DEF Next

(* The contract implements the promise, for every set of users and         *)
(* validators and whatever they do: a request is a fixed amount on the     *)
(* open window, and it is paid once, its share of what that window         *)
(* realised (execute_receive, close_open_window, execute_claim_matured).   *)
THEOREM PromiseAlwaysKept == Spec => KeepsQueuePromise
  BY PromiseInit, PromiseStep, LedgersAlwaysAgree, PTL
     DEF Spec, KeepsQueuePromise, Queue!Spec

=============================================================================
