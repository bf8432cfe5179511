-------------------------- MODULE TickTimingProofs --------------------------
(***************************************************************************)
(* Proofs about TickTiming: when a due slot is fired, fired late or given  *)
(* up, for every grace, cadence, policy, back-off and number of failures.  *)
(***************************************************************************)
EXTENDS TickTiming, SequenceTheorems, TLAPS

-----------------------------------------------------------------------------
(* The inductive invariant.                                                *)

\* The rows: a row has fired before what it waits for, and lags behind the Brain's
\* by whole revisions; the latest of them is an edit or a move.
Fits(r, t) == r.last # None => r.last <= t /\ (r.next = None \/ r.last < r.next)

Behind(r, b) ==
    /\ r.rev <= b.rev
    /\ r.rev = b.rev => r = b
    /\ b.rev = r.rev + 1 => \/ b.last = r.last
                            \/ b.cad = r.cad /\ b.next = NextAfter(b.cad, b.last)

Rows ==
    /\ Fits(row, now) /\ Fits(brain, now) /\ Behind(row, brain)
    /\ pc # "asleep" => Fits(fire.entry, now) /\ Behind(fire.entry, brain)

\* A claimed entry: what it says of the pending slot, and what the marks say of it.
Claim ==
    pc # "asleep" =>
        /\ fire.at <= now
        /\ parked = None
        /\ entitled.slot # None => entitled.at <= fire.at
        /\ changed \/ row.cad = fire.entry.cad
        /\ fire.sent = 0 => /\ seen.slot = fire.entry.next /\ seen.cad = fire.entry.cad
                            /\ fire.entry.next \in 0..fire.at
        /\ pc = "claimed" => fire.sent = 0

\* The clock by which the pending slot is judged.
Clock == IF pc = "asleep" THEN now ELSE fire.at

\* The slot is no longer pending, here and at the Brain, and will not be again.
Past(r, s) == r.next = None \/ s < r.next
Settled(s) == s # None /\ s <= now /\ Past(row, s) /\ Past(brain, s)

\* No attempt on time speaks for the slot, or the entitlement does.
Lapsed ==
    \/ seen.onTime = {} \/ seen.redefined
    \/ \E attempt \in seen.onTime : Clock - attempt[2] > EntitlementAge
Held == entitled.slot # None /\ entitled.slot = seen.slot /\ entitled.cad = seen.cad

\* A slot seen as a follower has its handoff, or is too late for one.
HandoffKept ==
    \/ ~seen.followed
    \/ handoff.slot = seen.slot /\ handoff.cad = seen.cad
    \/ Clock - seen.slot > PromotionGrace

Over == pc = "asleep" /\ Settled(seen.slot)

Memory ==
    /\ handoff.slot # None => /\ seen.slot = handoff.slot /\ seen.cad = handoff.cad
                              /\ seen.followed
    /\ entitled.slot # None => /\ seen.slot = entitled.slot /\ entitled.at <= now
                               /\ <<entitled.cad, entitled.at>> \in seen.onTime
    /\ Lapsed \/ Held \/ Over
    /\ HandoffKept \/ Over

\* The plan that is being drained.
Draining == pc \in {"planned", "firing", "skipping"}

\* The slot u comes after s in a plan made at t: it is the next one, or the cap of the
\* backlog passes over what is between them.
Follows(cad, s, u, t) == u = NextAfter(cad, s) \/ AmongNewest(cad, u, t)

Consecutive ==
    \A i \in 1..(Len(fire.slots) - 1) :
       Follows(fire.entry.cad, fire.slots[i], fire.slots[i + 1], fire.at)

PlanFits ==
    /\ fire.slots # <<>> /\ \A i \in 1..Len(fire.slots) : fire.slots[i] <= fire.at
    /\ fire.owed => fire.slots = <<fire.entry.next>> /\ fire.sent = 0
    /\ ~fire.owed => /\ Lapsed
                     /\ fire.handoff => fire.at - seen.slot > PromotionGrace
    /\ pc = "skipping" => policy = "skip" /\ ~fire.owed /\ fire.entry.cad # Once
    /\ policy # "fire_all_missed" => Len(fire.slots) = 1
    /\ policy = "fire_all_missed" =>
          /\ Consecutive
          /\ fire.entry.rev = brain.rev /\ OnGrid(fire.entry) =>
                Slot = fire.entry.next \/ AmongNewest(fire.entry.cad, Slot, fire.at)

Plans == Draining => PlanFits /\ CatchUpIsOnePass /\ LateFireIsOwed

\* How long the engine may sleep.
NapFits ==
    /\ nap.kind = "none" => nap.until <= now
    /\ nap.kind = "unhealthy" =>
          /\ nap.until <= now + UnhealthySleep
          /\ healthy => nap.until <= since.healthy + UnhealthySleep
    /\ nap.kind = "wait" /\ ~changed /\ row.enabled /\ row.next # None =>
          IF parked = row.next
          THEN /\ nap.until <= now + Recheck
               /\ leader => nap.until <= since.leader + Recheck
          ELSE /\ nap.until <= row.next \/ nap.until <= backoff.until
               /\ backoff.until = None \/ backoff.cad = row.cad

Naps == pc = "asleep" => NapFits

IInv == TypeOK /\ Rows /\ Claim /\ Memory /\ Plans /\ Naps

-----------------------------------------------------------------------------
(* Constants, records and slots.                                           *)

LEMMA Constants ==
    /\ Grace \in Nat /\ Recheck \in Nat /\ MaxTime \in Nat /\ MaxEvents \in Nat
    /\ UnhealthySleep \in Nat /\ MaxSleep \in Nat /\ MaxSleep > 0 /\ RpcTimeout \in Nat
    /\ BackoffBase \in Nat /\ BackoffCap \in Nat /\ MaxDispatch \in Nat
    /\ MaxMissed \in Nat /\ MaxMissed > 0
    /\ EntitlementAge \in Nat /\ PromotionGrace \in Nat /\ Grace <= PromotionGrace
    /\ Once \in Cadence /\ None = -1
    /\ \A cad \in Cadence : cad \in Nat /\ (cad # Once => cad > 0)
    /\ Moment \subseteq Nat
  BY TimingAssumption DEF EntitlementAge, PromotionGrace, Once, Cadence, None, Moment

\* What the types say of the fields that are computed with.
TypedFacts ==
    /\ now \in Nat /\ fire.at \in Nat /\ fire.at \in Moment /\ fire.sent \in Nat
    /\ fire.slots \in Seq(Nat) /\ fire.entry \in Row
    /\ row \in Row /\ brain \in Row
    /\ seen.slot \in MaybeSlot /\ seen.cad \in Cadence
    /\ seen.onTime \subseteq Cadence \X Moment
    /\ \A attempt \in seen.onTime : attempt[2] \in Moment
    /\ handoff.slot \in MaybeSlot /\ handoff.cad \in Cadence
    /\ entitled.slot \in MaybeSlot /\ entitled.cad \in Cadence /\ entitled.at \in Moment \cup {None}
    /\ entitled.at \in Int
    /\ parked \in MaybeSlot
    /\ backoff.until \in Int /\ backoff.cad \in Cadence /\ backoff.count \in Nat
    /\ nap.until \in Nat /\ nap.kind \in {"none", "wait", "unhealthy"}
    /\ since.leader \in Moment /\ since.healthy \in Moment

LEMMA Typed == (TypeOK => TypedFacts) /\ (TypeOK' => TypedFacts')
  <1>1. \A t \in Moment \cup {None} : t \in Int
    BY Constants
  <1>2. ASSUME TypeOK PROVE TypedFacts
    <2>1. entitled.at \in Moment \cup {None}
      BY <1>2 DEF TypeOK
    <2>2. entitled.at \in Int
      BY <1>1, <2>1
    <2>3. now \in Nat /\ fire.at \in Nat
      BY <1>2, Constants DEF TypeOK, Fire
    <2> QED
      BY <1>2, <2>1, <2>2, <2>3 DEF TypeOK, TypedFacts, Fire
  <1>3. ASSUME TypeOK' PROVE TypedFacts'
    <2>1. entitled'.at \in Moment \cup {None}
      BY <1>3 DEF TypeOK
    <2>2. entitled'.at \in Int
      BY <1>1, <2>1
    <2>3. now' \in Nat /\ fire'.at \in Nat
      BY <1>3, Constants DEF TypeOK, Fire
    <2> QED
      BY <1>3, <2>1, <2>2, <2>3 DEF TypeOK, TypedFacts, Fire
  <1> QED
    BY <1>2, <1>3

LEMMA RowFields ==
    ASSUME NEW r \in Row
    PROVE  /\ r.last \in MaybeSlot /\ r.next \in MaybeSlot /\ r.cad \in Cadence
           /\ r.enabled \in BOOLEAN /\ r.rev \in Nat /\ r.last \in Int /\ r.next \in Int
  BY Constants DEF Row, MaybeSlot

LEMMA SlotsAreInts == \A s \in MaybeSlot : s \in Int /\ (s # None => s \in Nat)
  BY Constants DEF MaybeSlot

LEMMA NextAfterSlot ==
    ASSUME NEW cad \in Cadence, NEW s \in Nat
    PROVE  /\ NextAfter(cad, s) \in MaybeSlot
           /\ NextAfter(cad, s) = None \/ s < NextAfter(cad, s)
           /\ cad # Once => NextAfter(cad, s) = s + cad
  BY Constants DEF NextAfter, MaybeSlot

LEMMA MovedRow ==
    ASSUME NEW r \in Row, NEW s \in Nat
    PROVE  /\ Moved(r, s) \in Row
           /\ Moved(r, s).last = s /\ Moved(r, s).next = NextAfter(r.cad, s)
           /\ Moved(r, s).cad = r.cad /\ Moved(r, s).rev = r.rev + 1
           /\ Moved(r, s).enabled = r.enabled
  <1>1. s \in MaybeSlot /\ NextAfter(r.cad, s) \in MaybeSlot /\ r.rev + 1 \in Nat
    BY NextAfterSlot, RowFields DEF MaybeSlot
  <1> HIDE DEF NextAfter
  <1> QED
    BY <1>1 DEF Moved, Row

-----------------------------------------------------------------------------
(* Slots missed.                                                           *)

LEMMA Division ==
    ASSUME NEW a \in Int, NEW b \in Nat, b > 0
    PROVE  a \div b \in Int /\ b * (a \div b) <= a /\ a < b * (a \div b) + b
  OBVIOUS

LEMMA Products ==
    ASSUME NEW b \in Nat, NEW j \in Int, NEW k \in Int
    PROVE  /\ j * b \in Int /\ (j + 1) * b = j * b + b /\ j * b = b * j
           /\ (j + k) * b = j * b + k * b
           /\ j <= k => j * b <= k * b
           /\ 0 <= j => 0 <= j * b
           /\ 1 <= j => b <= j * b
  OBVIOUS

\* A sequence that numbers the slots of a grid from the j-th on.
LEMMA Slots ==
    ASSUME NEW after \in Nat, NEW step \in Nat, NEW j \in Nat, NEW n \in Nat
    PROVE  LET slots == [k \in 1..n |-> after + (j + k - 1) * step] IN
           /\ slots \in Seq(Nat) /\ Len(slots) = n
           /\ n > 0 => slots[1] = after + j * step /\ slots[n] = after + (j + n - 1) * step
           /\ \A k \in 1..n : slots[k] <= slots[n]
           /\ \A k \in 1..(n - 1) : slots[k + 1] = slots[k] + step
  <1> DEFINE slots == [k \in 1..n |-> after + (j + k - 1) * step]
  <1>1. \A k \in 1..n : slots[k] = after + (j + k - 1) * step
    OBVIOUS
  <1>2. \A k \in 1..n : (j + k - 1) * step \in Nat
    <2> TAKE k \in 1..n
    <2>1. j + k - 1 \in Int /\ 0 <= j + k - 1
      OBVIOUS
    <2> QED
      BY <2>1, Products
  <1>3. slots \in Seq(Nat) /\ Len(slots) = n
    BY <1>2
  <1>4. \A k \in 1..n : slots[k] <= slots[n]
    <2> TAKE k \in 1..n
    <2>1. n \in 1..n /\ j + k - 1 \in Int /\ j + n - 1 \in Int /\ j + k - 1 <= j + n - 1
      OBVIOUS
    <2>2. (j + k - 1) * step <= (j + n - 1) * step
      BY <2>1, Products
    <2>3. slots[k] = after + (j + k - 1) * step /\ slots[n] = after + (j + n - 1) * step
      BY <1>1, <2>1
    <2> QED
      BY <1>2, <2>1, <2>2, <2>3
  <1>5. \A k \in 1..(n - 1) : slots[k + 1] = slots[k] + step
    <2> TAKE k \in 1..(n - 1)
    <2>1. /\ k \in 1..n /\ k + 1 \in 1..n /\ j + k - 1 \in Int
          /\ j + (k + 1) - 1 = (j + k - 1) + 1
      OBVIOUS
    <2>2. ((j + k - 1) + 1) * step = (j + k - 1) * step + step
      BY <2>1, Products
    <2>3. slots[k] = after + (j + k - 1) * step /\ slots[k + 1] = after + (j + (k + 1) - 1) * step
      BY <1>1, <2>1
    <2> QED
      BY <1>2, <2>1, <2>2, <2>3
  <1>6. n > 0 => slots[1] = after + j * step /\ slots[n] = after + (j + n - 1) * step
    <2> SUFFICES ASSUME n > 0 PROVE slots[1] = after + j * step /\ slots[n] = after + (j + n - 1) * step
      OBVIOUS
    <2>1. 1 \in 1..n /\ n \in 1..n /\ j + 1 - 1 = j
      OBVIOUS
    <2> QED
      BY <1>1, <2>1
  <1> QED
    BY <1>3, <1>4, <1>5, <1>6

\* The slots of a grid in (after, t]: none is left out at the end, and at the front only
\* what the cap passes over.
LEMMA Grid ==
    ASSUME NEW after \in Nat, NEW step \in Nat, step > 0, NEW t \in Nat
    PROVE  LET slots == FiresBetween(after, step, t) IN
           /\ slots \in Seq(Nat)
           /\ after + step <= t <=> slots # <<>>
           /\ \A k \in 1..Len(slots) : slots[k] <= t
           /\ \A k \in 1..(Len(slots) - 1) : slots[k + 1] = slots[k] + step
           /\ slots # <<>> =>
                 /\ slots[1] = after + step \/ slots[1] + (MaxMissed - 1) * step <= t
                 /\ slots[Len(slots)] + step > t
  <1> DEFINE last == (t - after) \div step
             start == Greatest(1, last - MaxMissed + 1)
             n == last - start + 1
             slots == FiresBetween(after, step, t)
  <1>1. last \in Int /\ step * last <= t - after /\ t - after < step * last + step
    BY Division
  <1>2. slots = [k \in 1..n |-> after + (start + k - 1) * step]
    BY DEF FiresBetween
  <1> HIDE DEF last
  <1>3. after + step <= t <=> 1 <= last
    <2>1. CASE 1 <= last
      <3>1. step <= last * step /\ last * step = step * last
        BY <1>1, <2>1, Products
      <3> QED
        BY <1>1, <2>1, <3>1
    <2>2. CASE ~(1 <= last)
      <3>1. last <= 0
        BY <1>1, <2>2
      <3>2. last * step <= 0 * step /\ last * step = step * last /\ 0 * step = 0
        BY <1>1, <3>1, Products
      <3> QED
        BY <1>1, <2>2, <3>2
    <2> QED
      BY <2>1, <2>2
  <1>4. /\ start \in Nat /\ start >= 1 /\ n \in Int
        /\ start = 1 \/ start + (MaxMissed - 1) = last
        /\ 1 <= last => n \in Nat /\ n > 0
        /\ ~(1 <= last) => n <= 0
        /\ start + n - 1 = last
    BY <1>1, Constants DEF Greatest
  <1> HIDE DEF start, n, slots
  <1>5. CASE 1 <= last
    <2>1. /\ slots \in Seq(Nat) /\ Len(slots) = n
          /\ slots[1] = after + start * step /\ slots[n] = after + last * step
          /\ \A k \in 1..n : slots[k] <= slots[n]
          /\ \A k \in 1..(n - 1) : slots[k + 1] = slots[k] + step
      <3>1. start \in Nat /\ n \in Nat /\ n > 0
        BY <1>4, <1>5
      <3> DEFINE all == [k \in 1..n |-> after + (start + k - 1) * step]
      <3>2. /\ all \in Seq(Nat) /\ Len(all) = n
            /\ all[1] = after + start * step /\ all[n] = after + (start + n - 1) * step
            /\ \A k \in 1..n : all[k] <= all[n]
            /\ \A k \in 1..(n - 1) : all[k + 1] = all[k] + step
        BY <3>1, Slots
      <3>3. slots = all
        BY <1>2
      <3> HIDE DEF all
      <3> QED
        BY <1>4, <3>2, <3>3
    <2>2. last * step = step * last /\ last * step \in Int /\ start * step \in Int
      BY <1>1, <1>4, Products
    <2>3. slots[n] <= t /\ slots[n] + step > t /\ slots[n] \in Nat
      <3>1. n \in 1..Len(slots)
        BY <1>4, <1>5, <2>1
      <3> QED
        BY <1>1, <2>1, <2>2, <3>1
    <2>4. \A k \in 1..Len(slots) : slots[k] <= t
      <3> TAKE k \in 1..Len(slots)
      <3>1. slots[k] \in Nat /\ slots[k] <= slots[n]
        BY <2>1
      <3> QED
        BY <2>3, <3>1
    <2>5. slots[1] = after + step \/ slots[1] + (MaxMissed - 1) * step <= t
      <3>1. CASE start = 1
        <4>1. 1 * step = step
          OBVIOUS
        <4> QED
          BY <2>1, <3>1, <4>1
      <3>2. CASE start + (MaxMissed - 1) = last
        <4>1. MaxMissed - 1 \in Int
          BY Constants
        <4>2. start * step + (MaxMissed - 1) * step = last * step /\ (MaxMissed - 1) * step \in Int
          BY <1>4, <3>2, <4>1, Products
        <4> QED
          BY <1>1, <2>1, <2>2, <4>2
      <3> QED
        BY <1>4, <3>1, <3>2
    <2>6. slots # <<>>
      BY <1>4, <1>5, <2>1
    <2> QED
      BY <1>3, <1>5, <2>1, <2>3, <2>4, <2>5, <2>6 DEF slots
  <1>6. CASE ~(1 <= last)
    <2>1. slots = <<>>
      <3>1. 1..n = {}
        BY <1>4, <1>6
      <3> QED
        BY <1>2, <3>1
    <2>2. slots \in Seq(Nat) /\ Len(slots) = 0
      BY <2>1
    <2> QED
      BY <1>3, <1>6, <2>1, <2>2 DEF slots
  <1> QED
    BY <1>5, <1>6

\* What a due recurring schedule missed.
LEMMA Missed ==
    ASSUME NEW r \in Row, NEW t \in Nat, r.cad # Once, r.next \in 0..t, Fits(r, t)
    PROVE  LET slots == MissedSlots(r, t) IN
           /\ slots \in Seq(Nat) /\ slots # <<>>
           /\ \A k \in 1..Len(slots) : slots[k] <= t
           /\ \A k \in 1..(Len(slots) - 1) : Follows(r.cad, slots[k], slots[k + 1], t)
           /\ OnGrid(r) => slots[1] = r.next \/ AmongNewest(r.cad, slots[1], t)
           /\ Latest(slots) \in Nat /\ Latest(slots) <= t /\ NextAfter(r.cad, Latest(slots)) > t
  <1> DEFINE after == IF r.last = None THEN r.next ELSE r.last
             grid == FiresBetween(after, r.cad, t)
             slots == MissedSlots(r, t)
  <1>1. /\ r.cad \in Cadence /\ r.cad \in Nat /\ r.cad > 0 /\ r.next \in Nat /\ r.next # None
        /\ r.next <= t
        /\ r.last # None => r.last \in Nat
    BY Constants, RowFields, SlotsAreInts
  <1>2. after \in Nat /\ (r.last = None => after = r.next) /\ (r.last # None => after = r.last)
    BY <1>1
  <1>3. /\ r.last = None => slots = <<r.next>> \o grid \/ (<<r.next>> \o grid = <<>>)
        /\ r.last # None => slots = IF grid = <<>> THEN <<r.next>> ELSE grid
    BY DEF MissedSlots
  <1>4. OnGrid(r) /\ r.last # None => after + r.cad = r.next
    BY <1>1 DEF OnGrid, NextAfter
  <1> HIDE DEF after
  <1>5. /\ grid \in Seq(Nat)
        /\ after + r.cad <= t <=> grid # <<>>
        /\ \A k \in 1..Len(grid) : grid[k] <= t
        /\ \A k \in 1..(Len(grid) - 1) : grid[k + 1] = grid[k] + r.cad
        /\ grid # <<>> =>
              /\ grid[1] = after + r.cad \/ AmongNewest(r.cad, grid[1], t)
              /\ grid[Len(grid)] + r.cad > t
    <2>1. /\ grid \in Seq(Nat)
          /\ after + r.cad <= t <=> grid # <<>>
          /\ \A k \in 1..Len(grid) : grid[k] <= t
          /\ \A k \in 1..(Len(grid) - 1) : grid[k + 1] = grid[k] + r.cad
          /\ grid # <<>> =>
                /\ grid[1] = after + r.cad \/ grid[1] + (MaxMissed - 1) * r.cad <= t
                /\ grid[Len(grid)] + r.cad > t
      BY <1>1, <1>2, Grid
    <2> HIDE DEF grid
    <2> QED
      BY <2>1 DEF AmongNewest
  <1> HIDE DEF grid, slots
  <1>6. \A s \in Nat : NextAfter(r.cad, s) = s + r.cad
    BY <1>1, NextAfterSlot
  <1>7. \A k \in 1..Len(grid) : grid[k] \in Nat
    BY <1>5
  <1>8. \A k \in 1..(Len(grid) - 1) : Follows(r.cad, grid[k], grid[k + 1], t)
    <2> TAKE k \in 1..(Len(grid) - 1)
    <2>1. k \in 1..Len(grid)
      BY <1>5
    <2> QED
      BY <1>5, <1>6, <1>7, <2>1 DEF Follows
  <1> HIDE DEF NextAfter, OnGrid
  <1>9. CASE r.last # None /\ grid # <<>>
    <2>1. slots = grid
      BY <1>3, <1>9
    <2>2. Len(grid) \in 1..Len(grid) /\ Latest(grid) = grid[Len(grid)]
      BY <1>5, <1>9 DEF Latest
    <2>3. Latest(grid) \in Nat /\ Latest(grid) <= t /\ NextAfter(r.cad, Latest(grid)) > t
      BY <1>5, <1>6, <1>7, <1>9, <2>2
    <2> QED
      BY <1>4, <1>5, <1>8, <1>9, <2>1, <2>3 DEF slots
  <1>10. ASSUME slots = <<r.next>>, r.next + r.cad > t
         PROVE  /\ slots \in Seq(Nat) /\ slots # <<>> /\ Len(slots) = 1 /\ slots[1] = r.next
                /\ Latest(slots) \in Nat /\ Latest(slots) <= t /\ NextAfter(r.cad, Latest(slots)) > t
    <2>1. slots \in Seq(Nat) /\ slots # <<>> /\ Len(slots) = 1 /\ slots[1] = r.next
      BY <1>1, <1>10
    <2> QED
      BY <1>1, <1>6, <1>10, <2>1 DEF Latest
  <1>11. CASE r.last # None /\ grid = <<>>
    <2>1. slots = <<r.next>>
      BY <1>3, <1>11
    <2>2. r.last + r.cad > t /\ r.last < r.next
      BY <1>1, <1>2, <1>5, <1>11 DEF Fits
    <2>3. r.next + r.cad > t
      BY <1>1, <1>11, <2>2
    <2> QED
      BY <1>1, <1>10, <2>1, <2>3 DEF slots
  <1>12. CASE r.last = None
    <2> DEFINE all == <<r.next>> \o grid
    <2>1. /\ all \in Seq(Nat) /\ Len(all) = Len(grid) + 1 /\ all[1] = r.next
          /\ \A k \in 1..Len(grid) : all[k + 1] = grid[k]
          /\ Len(grid) \in Nat
      BY <1>1, <1>5
    <2> HIDE DEF all
    <2>2. all # <<>>
      BY <2>1
    <2>3. slots = all
      BY <1>3, <1>12, <2>2 DEF all
    <2>4. CASE grid = <<>>
      <3>1. r.next + r.cad > t
        BY <1>1, <1>2, <1>5, <1>12, <2>4
      <3>2. slots = <<r.next>>
        BY <1>1, <2>3, <2>4 DEF all
      <3> QED
        BY <1>1, <1>10, <3>1, <3>2 DEF slots
    <2>5. CASE grid # <<>>
      <3>1. Len(grid) \in 1..Len(grid) /\ 1 \in 1..Len(grid)
        BY <1>5, <2>5
      <3>2. Latest(all) = grid[Len(grid)]
        BY <2>1, <3>1 DEF Latest
      <3>3. Latest(all) \in Nat /\ Latest(all) <= t /\ NextAfter(r.cad, Latest(all)) > t
        BY <1>5, <1>6, <1>7, <2>5, <3>1, <3>2
      <3>4. \A k \in 1..Len(all) : all[k] <= t
        <4> TAKE k \in 1..Len(all)
        <4>1. CASE k = 1
          BY <1>1, <2>1, <4>1
        <4>2. CASE k # 1
          <5>1. k - 1 \in 1..Len(grid) /\ (k - 1) + 1 = k
            BY <2>1, <4>2
          <5>2. all[(k - 1) + 1] = grid[k - 1]
            BY <2>1, <5>1
          <5> QED
            BY <1>5, <5>1, <5>2
        <4> QED
          BY <4>1, <4>2
      <3>5. \A k \in 1..(Len(all) - 1) : Follows(r.cad, all[k], all[k + 1], t)
        <4> TAKE k \in 1..(Len(all) - 1)
        <4>1. k \in 1..Len(grid) /\ all[k + 1] = grid[k]
          BY <2>1
        <4>2. CASE k = 1
          <5>1. all[k] = r.next /\ NextAfter(r.cad, r.next) = after + r.cad
            BY <1>1, <1>2, <1>6, <1>12, <2>1, <4>2
          <5> QED
            BY <1>5, <2>5, <4>1, <4>2, <5>1 DEF Follows
        <4>3. CASE k # 1
          <5>1. k - 1 \in 1..Len(grid) /\ k - 1 \in 1..(Len(grid) - 1) /\ (k - 1) + 1 = k
            BY <2>1, <4>1, <4>3
          <5>2. all[(k - 1) + 1] = grid[k - 1] /\ Follows(r.cad, grid[k - 1], grid[(k - 1) + 1], t)
            BY <1>8, <2>1, <5>1
          <5> QED
            BY <4>1, <5>1, <5>2
        <4> QED
          BY <4>2, <4>3
      <3> QED
        BY <2>1, <2>2, <2>3, <3>3, <3>4, <3>5 DEF slots
    <2> QED
      BY <2>4, <2>5
  <1> QED
    BY <1>9, <1>11, <1>12

-----------------------------------------------------------------------------
(* How rows move.                                                          *)

\* The Brain's row stays, or takes one more revision by an edit or a move.
Goes(b, c, t) ==
    /\ c \in Row
    /\ \/ c = b
       \/ /\ c.rev = b.rev + 1
          /\ c.last = b.last \/ (c.cad = b.cad /\ c.next = NextAfter(c.cad, c.last))
          /\ Fits(c, t)

LEMMA RowGoes ==
    ASSUME NEW b \in Row, NEW c \in Row, NEW t \in Nat, Goes(b, c, t), Fits(b, t)
    PROVE  Fits(c, t) /\ Behind(c, c) /\ b.rev <= c.rev /\ (c.rev = b.rev => c = b)
  BY RowFields DEF Goes, Behind

LEMMA BehindGoes ==
    ASSUME NEW r \in Row, NEW b \in Row, NEW c \in Row, NEW t \in Nat,
           Behind(r, b), Goes(b, c, t)
    PROVE  Behind(r, c)
  <1>1. r.rev \in Nat /\ b.rev \in Nat /\ c.rev \in Nat
    BY RowFields
  <1> HIDE DEF NextAfter
  <1>2. CASE c = b
    BY <1>2
  <1>3. CASE c # b
    <2>1. c.rev = b.rev + 1 /\ r.rev <= b.rev
      BY <1>3 DEF Goes, Behind
    <2>2. c.rev = r.rev + 1 => r = b
      BY <1>1, <2>1 DEF Behind
    <2> QED
      BY <1>1, <1>3, <2>1, <2>2 DEF Goes, Behind
  <1> QED
    BY <1>2, <1>3

LEMMA FitsLater ==
    ASSUME NEW r \in Row, NEW t \in Nat, NEW u \in Nat, t <= u, Fits(r, t)
    PROVE  Fits(r, u)
  BY RowFields DEF Fits

LEMMA MovedGoes ==
    ASSUME NEW b \in Row, NEW s \in Nat, NEW t \in Nat, s <= t
    PROVE  Goes(b, Moved(b, s), t)
  <1>1. /\ Moved(b, s) \in Row
        /\ Moved(b, s).last = s /\ Moved(b, s).next = NextAfter(b.cad, s)
        /\ Moved(b, s).cad = b.cad /\ Moved(b, s).rev = b.rev + 1
    BY MovedRow
  <1>2. NextAfter(b.cad, s) = None \/ s < NextAfter(b.cad, s)
    BY NextAfterSlot, RowFields
  <1> HIDE DEF NextAfter, Moved
  <1> QED
    BY <1>1, <1>2 DEF Goes, Fits

-----------------------------------------------------------------------------
(* Steps of the world: the engine stands still.                            *)

\* What the clock has judged stays judged.
LEMMA TimeGoesOn ==
    ASSUME TypeOK, seen' = seen, handoff' = handoff, Clock' \in Nat, Clock <= Clock'
    PROVE  (Lapsed => Lapsed') /\ (HandoffKept => HandoffKept')
  <1>1. TypedFacts
    BY Typed
  <1>2. Clock \in Nat /\ Clock' \in Nat
    BY <1>1 DEF Clock, TypedFacts
  <1>3. Lapsed => Lapsed'
    <2>1. \A attempt \in seen.onTime : attempt[2] \in Nat
      BY <1>1, Constants DEF TypedFacts
    <2>2. \A attempt \in seen.onTime :
             Clock - attempt[2] > EntitlementAge => Clock' - attempt[2] > EntitlementAge
      BY <1>2, <2>1, Constants
    <2> QED
      BY <2>2 DEF Lapsed
  <1>4. HandoffKept => HandoffKept'
    <2>1. seen.slot \in Int
      BY <1>1, SlotsAreInts DEF TypedFacts
    <2> QED
      BY <1>2, <2>1, Constants DEF HandoffKept
  <1> QED
    BY <1>3, <1>4

SameEngine ==
    UNCHANGED <<policy, pc, nap, fire, parked, handoff, entitled, backoff, seen>>

LEMMA WorldRows ==
    ASSUME IInv, TypeOK', SameEngine, now' \in {now, now + 1},
           Goes(brain, brain', now'), row' = row \/ row' = brain'
    PROVE  Rows'
  <1>1. TypedFacts /\ TypedFacts'
    BY Typed DEF IInv
  <1>2. now \in Nat /\ now' \in Nat /\ now <= now' /\ row \in Row /\ brain \in Row /\ brain' \in Row
    BY <1>1 DEF TypedFacts
  <1>3. Fits(row, now') /\ Fits(brain, now')
    BY <1>2, FitsLater DEF IInv, Rows
  <1>4. Fits(brain', now') /\ Behind(brain', brain') /\ Behind(row, brain')
    BY <1>2, <1>3, RowGoes, BehindGoes DEF IInv, Rows
  <1>5. ASSUME pc # "asleep"
        PROVE  Fits(fire.entry, now') /\ Behind(fire.entry, brain')
    <2>1. fire.entry \in Row /\ Fits(fire.entry, now) /\ Behind(fire.entry, brain)
      BY <1>1, <1>5 DEF IInv, Rows, TypedFacts
    <2> QED
      BY <1>2, <2>1, FitsLater, BehindGoes
  <1>6. pc' = pc /\ fire' = fire
    BY DEF SameEngine
  <1>7. Fits(row', now') /\ Behind(row', brain')
    BY <1>3, <1>4
  <1> HIDE DEF Fits, Behind
  <1> QED
    BY <1>4, <1>5, <1>6, <1>7 DEF Rows

LEMMA WorldPlans ==
    ASSUME IInv, TypeOK', SameEngine, Goes(brain, brain', now')
    PROVE  Plans'
  <1>1. TypedFacts /\ TypedFacts'
    BY Typed DEF IInv
  <1>2. /\ policy' = policy /\ pc' = pc /\ fire' = fire /\ entitled' = entitled /\ seen' = seen
    BY DEF SameEngine
  <1> SUFFICES ASSUME Draining PROVE (PlanFits /\ CatchUpIsOnePass /\ LateFireIsOwed)'
    BY <1>2 DEF Plans, Draining
  <1>3. PlanFits /\ CatchUpIsOnePass /\ LateFireIsOwed /\ pc # "asleep"
    BY DEF IInv, Plans, Draining
  <1>4. Lapsed' <=> Lapsed
    BY <1>2, <1>3 DEF Lapsed, Clock
  <1>5. fire.entry.rev = brain'.rev => fire.entry.rev = brain.rev
    <2>1. Behind(fire.entry, brain) /\ fire.entry \in Row /\ brain \in Row /\ brain' \in Row
      BY <1>1, <1>3 DEF IInv, Rows, TypedFacts
    <2>2. fire.entry.rev \in Nat /\ brain.rev \in Nat /\ brain'.rev \in Nat
      BY <2>1, RowFields
    <2> QED
      BY <2>1, <2>2 DEF Goes, Behind
  <1>6. Slot' = Slot /\ (Consecutive' <=> Consecutive) /\ (OnGrid(fire.entry)' <=> OnGrid(fire.entry))
    BY <1>2 DEF Slot, Consecutive, OnGrid
  <1>7. PlanFits'
    BY <1>2, <1>3, <1>4, <1>5, <1>6 DEF PlanFits
  <1>8. CatchUpIsOnePass'
    BY <1>2, <1>3, <1>6 DEF CatchUpIsOnePass, CatchUp
  <1>9. LateFireIsOwed'
    BY <1>2, <1>3 DEF LateFireIsOwed, Lateness
  <1> QED
    BY <1>7, <1>8, <1>9

LEMMA WorldNaps ==
    ASSUME IInv, TypeOK', SameEngine, now' \in {now, now + 1},
           changed' = TRUE \/ (row' = row /\ changed' = changed),
           leader' => (leader /\ since'.leader = since.leader) \/ since'.leader = now,
           healthy' => (healthy /\ since'.healthy = since.healthy) \/ since'.healthy = now
    PROVE  Naps'
  <1>1. TypedFacts /\ TypedFacts'
    BY Typed DEF IInv
  <1>2. pc' = pc /\ nap' = nap /\ parked' = parked /\ backoff' = backoff
    BY DEF SameEngine
  <1> SUFFICES ASSUME pc = "asleep" PROVE NapFits'
    BY <1>2 DEF Naps
  <1>3. NapFits
    BY DEF IInv, Naps
  <1>4. /\ now \in Nat /\ now' \in Nat /\ now <= now' /\ nap.until \in Nat
        /\ Recheck \in Nat /\ UnhealthySleep \in Nat
    BY <1>1, Constants DEF TypedFacts
  <1>5. nap.kind = "none" => nap.until <= now'
    BY <1>3, <1>4 DEF NapFits
  <1>6. nap.kind = "unhealthy" =>
          /\ nap.until <= now' + UnhealthySleep
          /\ healthy' => nap.until <= since'.healthy + UnhealthySleep
    BY <1>3, <1>4 DEF NapFits
  <1>7. ASSUME nap.kind = "wait", ~changed', row'.enabled, row'.next # None
        PROVE  IF parked = row'.next
               THEN /\ nap.until <= now' + Recheck
                    /\ leader' => nap.until <= since'.leader + Recheck
               ELSE /\ nap.until <= row'.next \/ nap.until <= backoff.until
                    /\ backoff.until = None \/ backoff.cad = row'.cad
    <2>1. row' = row /\ ~changed
      BY <1>7
    <2> QED
      BY <1>3, <1>4, <1>7, <2>1 DEF NapFits
  <1> QED
    BY <1>2, <1>5, <1>6, <1>7 DEF NapFits

LEMMA WorldStep ==
    ASSUME IInv, TypeOK', SameEngine, now' \in {now, now + 1},
           Goes(brain, brain', now'),
           (row' = brain' /\ changed' = TRUE) \/ (row' = row /\ changed' = changed),
           \A s \in 0..now : Past(brain, s) => Past(brain', s),
           leader' => (leader /\ since'.leader = since.leader) \/ since'.leader = now,
           healthy' => (healthy /\ since'.healthy = since.healthy) \/ since'.healthy = now
    PROVE  IInv'
  <1>1. TypedFacts /\ TypedFacts'
    BY Typed DEF IInv
  <1>2. Rows' /\ Plans' /\ Naps'
    BY WorldRows, WorldPlans, WorldNaps
  <1>3. /\ policy' = policy /\ pc' = pc /\ fire' = fire /\ parked' = parked
        /\ handoff' = handoff /\ entitled' = entitled /\ seen' = seen
    BY DEF SameEngine
  <1>4. now \in Nat /\ now <= now' /\ now' \in Nat /\ fire.at \in Nat
    BY <1>1 DEF TypedFacts
  <1>5. Claim'
    BY <1>3, <1>4 DEF IInv, Claim
  <1>6. Clock <= Clock' /\ Clock' \in Nat
    BY <1>3, <1>4 DEF Clock
  <1>7. Over => Over'
    <2> SUFFICES ASSUME Over PROVE Over'
      OBVIOUS
    <2>1. seen.slot \in 0..now /\ Past(row, seen.slot) /\ Past(brain, seen.slot)
      <3>1. seen.slot \in MaybeSlot /\ seen.slot # None /\ seen.slot <= now
        BY <1>1 DEF Over, Settled, TypedFacts
      <3>2. seen.slot \in Nat
        BY <3>1, SlotsAreInts
      <3> QED
        BY <1>4, <3>1, <3>2 DEF Over, Settled
    <2>2. Past(brain', seen.slot) /\ Past(row', seen.slot)
      BY <2>1
    <2>3. seen.slot <= now' /\ seen.slot # None
      BY <1>4, <2>1, Constants
    <2> QED
      BY <1>3, <2>2, <2>3 DEF Over, Settled
  <1>8. Memory'
    <2>1. Lapsed \/ Held \/ Over => (Lapsed \/ Held \/ Over)'
      BY <1>3, <1>6, <1>7, TimeGoesOn DEF Held, IInv
    <2>2. HandoffKept \/ Over => (HandoffKept \/ Over)'
      BY <1>3, <1>6, <1>7, TimeGoesOn DEF IInv
    <2>3. entitled.slot # None => entitled.at <= now'
      BY <1>1, <1>4, Constants DEF IInv, Memory, TypedFacts
    <2> QED
      BY <1>3, <2>1, <2>2, <2>3 DEF IInv, Memory
  <1> QED
    BY <1>2, <1>5, <1>8 DEF IInv

LEMMA WorldTypes ==
    ASSUME TypeOK, SameEngine, now' \in Moment, brain' \in Row, row' \in Row,
           leader' \in BOOLEAN, healthy' \in BOOLEAN, changed' \in BOOLEAN,
           since' \in [leader : Moment, healthy : Moment], events' \in 0..MaxEvents
    PROVE  TypeOK'
  BY DEF TypeOK, SameEngine

LEMMA CountTypes ==
    ASSUME TypeOK, Count
    PROVE  events' \in 0..MaxEvents
  BY Constants DEF TypeOK, Count

LEMMA EditedRow ==
    ASSUME NEW b \in Row, NEW cad \in Cadence, NEW next \in MaybeSlot
    PROVE  LET c == [b EXCEPT !.cad = cad, !.next = next, !.rev = @ + 1] IN
           /\ c \in Row /\ c.last = b.last /\ c.next = next /\ c.rev = b.rev + 1
  <1>1. b.rev + 1 \in Nat
    BY RowFields
  <1> QED
    BY <1>1 DEF Row

LEMMA ToggledRow ==
    ASSUME NEW b \in Row
    PROVE  LET c == [b EXCEPT !.enabled = ~@, !.rev = @ + 1] IN
           /\ c \in Row /\ c.last = b.last /\ c.next = b.next /\ c.rev = b.rev + 1
  <1>1. (~b.enabled) \in BOOLEAN /\ b.rev + 1 \in Nat
    BY RowFields
  <1> QED
    BY <1>1 DEF Row

\* An edit of a row that was fired before now: it waits for its slot, or for the next one.
LEMMA EditGoes ==
    ASSUME NEW b \in Row, NEW c \in Row, NEW t \in Nat, Fits(b, t),
           c.rev = b.rev + 1, c.last = b.last, c.next \in {b.next, t + 1}
    PROVE  Goes(b, c, t) /\ \A s \in 0..t : Past(b, s) => Past(c, s)
  <1>1. Fits(c, t)
    BY RowFields, Constants DEF Fits
  <1>2. \A s \in 0..t : Past(b, s) => Past(c, s)
    BY DEF Past
  <1> QED
    BY <1>1, <1>2 DEF Goes

LEMMA StandingStill ==
    ASSUME UNCHANGED engine, UNCHANGED policy
    PROVE  SameEngine
  BY DEF engine, marks, SameEngine

\* A step of the Brain alone.
LEMMA BrainStep ==
    ASSUME IInv, UNCHANGED <<now, policy, row, gates, changed, engine>>,
           events' \in 0..MaxEvents, brain' \in Row, Goes(brain, brain', now),
           \A s \in 0..now : Past(brain, s) => Past(brain', s)
    PROVE  IInv'
  <1>1. /\ now' = now /\ row' = row /\ changed' = changed
        /\ leader' = leader /\ healthy' = healthy /\ since' = since /\ SameEngine
    BY StandingStill DEF gates
  <1>2. TypeOK'
    <2>1. /\ now \in Moment /\ row \in Row /\ leader \in BOOLEAN /\ healthy \in BOOLEAN
          /\ changed \in BOOLEAN /\ since \in [leader : Moment, healthy : Moment] /\ TypeOK
      BY DEF IInv, TypeOK
    <2> QED
      BY <1>1, <2>1, WorldTypes
  <1>3. now' \in {now, now + 1}
    BY <1>1
  <1>4. Goes(brain, brain', now')
    BY <1>1
  <1> HIDE DEF Goes, Past
  <1> QED
    BY <1>1, <1>2, <1>3, <1>4, WorldStep

LEMMA EditCadenceStep == IInv /\ EditCadence => IInv'
  <1> SUFFICES ASSUME IInv, EditCadence PROVE IInv'
    OBVIOUS
  <1>1. brain \in Row /\ now \in Nat /\ Fits(brain, now)
    BY Typed DEF IInv, TypedFacts, Rows
  <1>2. PICK cad \in Cadence, next \in {brain.next, now + 1} :
           brain' = [brain EXCEPT !.cad = cad, !.next = next, !.rev = @ + 1]
    BY DEF EditCadence
  <1>3. next \in MaybeSlot
    BY <1>1, RowFields DEF MaybeSlot
  <1>4. brain' \in Row /\ brain'.last = brain.last /\ brain'.next = next /\ brain'.rev = brain.rev + 1
    <2> DEFINE c == [brain EXCEPT !.cad = cad, !.next = next, !.rev = @ + 1]
    <2>1. c \in Row /\ c.last = brain.last /\ c.next = next /\ c.rev = brain.rev + 1
      BY <1>1, <1>3, EditedRow
    <2> HIDE DEF c
    <2>2. brain' = c
      BY <1>2 DEF c
    <2> QED
      BY <2>1, <2>2
  <1>5. Goes(brain, brain', now) /\ \A s \in 0..now : Past(brain, s) => Past(brain', s)
    BY <1>1, <1>4, EditGoes
  <1>6. events' \in 0..MaxEvents /\ UNCHANGED <<now, policy, row, gates, changed, engine>>
    BY CountTypes DEF EditCadence, IInv
  <1> QED
    BY <1>4, <1>5, <1>6, BrainStep

LEMMA ToggleStep == IInv /\ Toggle => IInv'
  <1> SUFFICES ASSUME IInv, Toggle PROVE IInv'
    OBVIOUS
  <1>1. brain \in Row /\ now \in Nat /\ Fits(brain, now)
    BY Typed DEF IInv, TypedFacts, Rows
  <1>2. brain' \in Row /\ brain'.last = brain.last /\ brain'.next = brain.next /\ brain'.rev = brain.rev + 1
    BY <1>1, ToggledRow DEF Toggle
  <1>3. Goes(brain, brain', now) /\ \A s \in 0..now : Past(brain, s) => Past(brain', s)
    BY <1>1, <1>2, EditGoes
  <1>4. events' \in 0..MaxEvents /\ UNCHANGED <<now, policy, row, gates, changed, engine>>
    BY CountTypes DEF Toggle, IInv
  <1> QED
    BY <1>2, <1>3, <1>4, BrainStep

LEMMA OtherReplicaFiresStep == IInv /\ OtherReplicaFires => IInv'
  <1> SUFFICES ASSUME IInv, OtherReplicaFires PROVE IInv'
    OBVIOUS
  <1>1. brain \in Row /\ now \in Nat /\ brain.next \in 0..now /\ brain' = Moved(brain, brain.next)
    BY Typed DEF IInv, TypedFacts, OtherReplicaFires
  <1>2. brain.next \in Nat /\ brain.next <= now
    BY <1>1
  <1>3. /\ brain' \in Row /\ brain'.next = NextAfter(brain.cad, brain.next)
        /\ Goes(brain, brain', now)
    BY <1>1, <1>2, MovedRow, MovedGoes
  <1>4. \A s \in 0..now : Past(brain, s) => Past(brain', s)
    <2>1. brain'.next = None \/ brain.next < brain'.next
      BY <1>1, <1>2, <1>3, NextAfterSlot, RowFields
    <2>2. brain'.next \in Int /\ brain.next # None
      BY <1>2, <1>3, RowFields, Constants
    <2> QED
      BY <1>1, <2>1, <2>2 DEF Past
  <1>5. events' \in 0..MaxEvents /\ UNCHANGED <<now, policy, row, gates, changed, engine>>
    BY CountTypes DEF OtherReplicaFires, IInv
  <1> QED
    BY <1>3, <1>4, <1>5, BrainStep

\* A step of the gates, of the clock or of the stream: the Brain's row stays.
LEMMA GateStep ==
    ASSUME IInv, UNCHANGED <<policy, brain, engine>>, now' \in {now, now + 1}, now' \in Moment,
           (row' = brain /\ changed' = TRUE) \/ (row' = row /\ changed' = changed),
           leader' \in BOOLEAN, healthy' \in BOOLEAN,
           since' \in [leader : Moment, healthy : Moment], events' \in 0..MaxEvents,
           leader' => (leader /\ since'.leader = since.leader) \/ since'.leader = now,
           healthy' => (healthy /\ since'.healthy = since.healthy) \/ since'.healthy = now
    PROVE  IInv'
  <1>1. SameEngine
    BY StandingStill
  <1>2. brain \in Row /\ row \in Row /\ changed \in BOOLEAN /\ TypeOK
    BY DEF IInv, TypeOK
  <1>3. brain' = brain /\ row' \in Row /\ changed' \in BOOLEAN
    BY <1>2
  <1>4. TypeOK'
    BY <1>1, <1>2, <1>3, WorldTypes
  <1>5. Goes(brain, brain', now') /\ \A s \in 0..now : Past(brain, s) => Past(brain', s)
    BY <1>2, <1>3 DEF Goes
  <1>6. (row' = brain' /\ changed' = TRUE) \/ (row' = row /\ changed' = changed)
    BY <1>3
  <1> HIDE DEF Goes, Past
  <1> QED
    BY <1>1, <1>4, <1>5, <1>6, WorldStep

\* The clock that a gate sets when it opens.
LEMMA SinceNow ==
    ASSUME TypeOK
    PROVE  /\ [since EXCEPT !.leader = now] \in [leader : Moment, healthy : Moment]
           /\ [since EXCEPT !.leader = now].leader = now
           /\ [since EXCEPT !.leader = now].healthy = since.healthy
           /\ [since EXCEPT !.healthy = now] \in [leader : Moment, healthy : Moment]
           /\ [since EXCEPT !.healthy = now].healthy = now
           /\ [since EXCEPT !.healthy = now].leader = since.leader
  BY DEF TypeOK

\* What the gate steps need of the state before them.
GateTypes ==
    /\ now \in Moment /\ now \in Nat /\ leader \in BOOLEAN /\ healthy \in BOOLEAN
    /\ changed \in BOOLEAN /\ since \in [leader : Moment, healthy : Moment]
    /\ events \in 0..MaxEvents /\ TypeOK

LEMMA GatesAreTyped == IInv => GateTypes
  BY Constants DEF IInv, TypeOK, GateTypes

LEMMA EchoStep == IInv /\ Echo => IInv'
  <1> SUFFICES ASSUME IInv, Echo PROVE IInv'
    OBVIOUS
  <1> USE DEF GateTypes
  <1>1. GateTypes
    BY GatesAreTyped
  <1>2. /\ row' = brain /\ changed' = TRUE /\ now' = now /\ policy' = policy /\ brain' = brain
        /\ leader' = leader /\ healthy' = healthy /\ since' = since /\ events' = events
        /\ UNCHANGED engine
    BY DEF Echo, gates
  <1> QED
    BY <1>1, <1>2, GateStep

LEMMA ElectedStep == IInv /\ Elected => IInv'
  <1> SUFFICES ASSUME IInv, Elected PROVE IInv'
    OBVIOUS
  <1> USE DEF GateTypes
  <1>1. GateTypes
    BY GatesAreTyped
  <1>2. /\ row' = row /\ changed' = changed /\ now' = now /\ policy' = policy /\ brain' = brain
        /\ leader' = TRUE /\ healthy' = healthy /\ events' = events
        /\ since' = [since EXCEPT !.leader = now] /\ UNCHANGED engine
    BY DEF Elected
  <1>3. /\ since' \in [leader : Moment, healthy : Moment] /\ since'.leader = now
        /\ since'.healthy = since.healthy
    BY <1>1, <1>2, SinceNow
  <1>4. now' \in {now, now + 1} /\ now' \in Moment /\ leader' \in BOOLEAN /\ healthy' \in BOOLEAN
    BY <1>1, <1>2
  <1>5. healthy' => healthy /\ since'.healthy = since.healthy
    BY <1>2, <1>3
  <1> QED
    BY <1>1, <1>2, <1>3, <1>4, <1>5, GateStep

LEMMA DemotedStep == IInv /\ Demoted => IInv'
  <1> SUFFICES ASSUME IInv, Demoted PROVE IInv'
    OBVIOUS
  <1> USE DEF GateTypes
  <1>1. GateTypes /\ events' \in 0..MaxEvents
    BY GatesAreTyped, CountTypes DEF Demoted
  <1>2. /\ row' = row /\ changed' = changed /\ now' = now /\ policy' = policy /\ brain' = brain
        /\ leader' = FALSE /\ healthy' = healthy /\ since' = since /\ UNCHANGED engine
    BY DEF Demoted
  <1> QED
    BY <1>1, <1>2, GateStep

LEMMA StreamBreaksStep == IInv /\ StreamBreaks => IInv'
  <1> SUFFICES ASSUME IInv, StreamBreaks PROVE IInv'
    OBVIOUS
  <1> USE DEF GateTypes
  <1>1. GateTypes /\ events' \in 0..MaxEvents
    BY GatesAreTyped, CountTypes DEF StreamBreaks
  <1>2. /\ row' = row /\ changed' = changed /\ now' = now /\ policy' = policy /\ brain' = brain
        /\ leader' = leader /\ healthy' = FALSE /\ since' = since /\ UNCHANGED engine
    BY DEF StreamBreaks
  <1> QED
    BY <1>1, <1>2, GateStep

LEMMA StreamRecoversStep == IInv /\ StreamRecovers => IInv'
  <1> SUFFICES ASSUME IInv, StreamRecovers PROVE IInv'
    OBVIOUS
  <1> USE DEF GateTypes
  <1>1. GateTypes
    BY GatesAreTyped
  <1>2. /\ row' = brain /\ changed' = TRUE /\ now' = now /\ policy' = policy /\ brain' = brain
        /\ leader' = leader /\ healthy' = TRUE /\ events' = events
        /\ since' = [since EXCEPT !.healthy = now] /\ UNCHANGED engine
    BY DEF StreamRecovers
  <1>3. /\ since' \in [leader : Moment, healthy : Moment] /\ since'.healthy = now
        /\ since'.leader = since.leader
    BY <1>1, <1>2, SinceNow
  <1>4. now' \in {now, now + 1} /\ now' \in Moment /\ leader' \in BOOLEAN /\ healthy' \in BOOLEAN
    BY <1>1, <1>2
  <1>5. leader' => leader /\ since'.leader = since.leader
    BY <1>2, <1>3
  <1> QED
    BY <1>1, <1>2, <1>3, <1>4, <1>5, GateStep

LEMMA TickStep == IInv /\ Tick => IInv'
  <1> SUFFICES ASSUME IInv, Tick PROVE IInv'
    OBVIOUS
  <1> USE DEF GateTypes
  <1>1. GateTypes
    BY GatesAreTyped
  <1>2. /\ row' = row /\ changed' = changed /\ now' = now + 1 /\ policy' = policy /\ brain' = brain
        /\ leader' = leader /\ healthy' = healthy /\ since' = since /\ events' = events
        /\ UNCHANGED engine
    BY DEF Tick, gates
  <1>3. now' \in Moment
    BY <1>1, <1>2, Constants DEF Tick, Moment
  <1> QED
    BY <1>1, <1>2, <1>3, GateStep

LEMMA StutterStep == IInv /\ UNCHANGED vars => IInv'
  <1> SUFFICES ASSUME IInv, UNCHANGED vars PROVE IInv'
    OBVIOUS
  <1> USE DEF GateTypes
  <1>1. GateTypes
    BY GatesAreTyped
  <1>2. /\ row' = row /\ changed' = changed /\ now' = now /\ policy' = policy /\ brain' = brain
        /\ leader' = leader /\ healthy' = healthy /\ since' = since /\ events' = events
        /\ UNCHANGED engine
    BY DEF vars, gates
  <1> QED
    BY <1>1, <1>2, GateStep

-----------------------------------------------------------------------------
(* A process that begins.                                                  *)

NothingRemembered ==
    /\ pc = "asleep" /\ nap = Awake /\ fire = NoFire
    /\ parked = None /\ handoff = NoHandoff /\ entitled = NoEntitlement
    /\ backoff = NoBackoff /\ seen = NothingSeen

BlankTypes ==
    /\ NoFire \in Fire /\ NoHandoff \in [slot : MaybeSlot, cad : Cadence]
    /\ NoEntitlement \in [slot : MaybeSlot, cad : Cadence, at : Moment \cup {None}]
    /\ NoEntitlement.slot = None /\ NoEntitlement.at = None
    /\ NoBackoff \in [count : Nat, until : Int, cad : Cadence]
    /\ NothingSeen \in [slot : MaybeSlot, cad : Cadence, onTime : SUBSET (Cadence \X Moment),
                        followed : BOOLEAN, redefined : BOOLEAN]
    /\ None \in MaybeSlot

LEMMA Blanks == BlankTypes
  <1>1. None \in MaybeSlot /\ None \in Int /\ Once \in Cadence /\ 0 \in Moment
    BY Constants DEF MaybeSlot, Moment
  <1>2. NoRow \in Row
    BY <1>1 DEF NoRow, Row
  <1>3. <<>> \in Seq(Nat)
    OBVIOUS
  <1>4. NoFire \in Fire
    BY <1>1, <1>2, <1>3 DEF NoFire, Fire
  <1> QED
    BY <1>1, <1>4 DEF BlankTypes, NoHandoff, NoEntitlement, NoBackoff, NothingSeen

LEMMA BlankMemory ==
    /\ NothingRemembered /\ TypeOK => Claim /\ Memory /\ Plans /\ Naps
    /\ NothingRemembered' /\ TypeOK' => Claim' /\ Memory' /\ Plans' /\ Naps'
  <1>1. ASSUME NothingRemembered, TypeOK PROVE Claim /\ Memory /\ Plans /\ Naps
    <2>1. now \in Nat
      BY <1>1, Typed DEF TypedFacts
    <2>2. Claim /\ Plans
      BY <1>1 DEF NothingRemembered, Claim, Plans, Draining
    <2>3. Memory
      BY <1>1 DEF NothingRemembered, Memory, Lapsed, HandoffKept, NoHandoff, NoEntitlement, NothingSeen
    <2>4. Naps
      BY <1>1, <2>1 DEF NothingRemembered, Naps, NapFits, Awake
    <2> QED
      BY <2>2, <2>3, <2>4
  <1>2. ASSUME NothingRemembered', TypeOK' PROVE Claim' /\ Memory' /\ Plans' /\ Naps'
    <2>1. now' \in Nat
      BY <1>2, Typed DEF TypedFacts
    <2>2. Claim' /\ Plans'
      BY <1>2 DEF NothingRemembered, Claim, Plans, Draining
    <2>3. Memory'
      BY <1>2 DEF NothingRemembered, Memory, Lapsed, HandoffKept, NoHandoff, NoEntitlement, NothingSeen
    <2>4. Naps'
      BY <1>2, <2>1 DEF NothingRemembered, Naps, NapFits, Awake
    <2> QED
      BY <2>2, <2>3, <2>4
  <1> QED
    BY <1>1, <1>2

LEMMA InitIInv == Init => IInv
  <1> SUFFICES ASSUME Init PROVE IInv
    OBVIOUS
  <1>1. now \in Moment /\ now \in Nat
    <2>1. 0 \in Moment /\ MaxTime \div 2 \in Moment
      BY Constants DEF Moment
    <2> QED
      BY <2>1, Constants DEF Init
  <1>2. PICK cad \in Cadence :
           row = [last |-> None, next |-> 1, cad |-> cad, enabled |-> TRUE, rev |-> 0]
    BY DEF Init
  <1>3. row \in Row /\ row.last = None /\ row.rev = 0
    BY <1>2, Constants DEF Row, MaybeSlot
  <1>4. brain = row
    BY DEF Init
  <1>5. Rows
    BY <1>3, <1>4 DEF Init, Rows, Fits, Behind
  <1>6. NothingRemembered
    BY DEF Init, NothingRemembered
  <1>7. TypeOK
    <2>1. nap \in [kind : {"none", "wait", "unhealthy"}, until : Nat]
      BY <1>1 DEF Init, Awake
    <2>2. since \in [leader : Moment, healthy : Moment] /\ events \in 0..MaxEvents
      BY <1>1, Constants DEF Init
    <2> HIDE DEF NoFire, NoHandoff, NoEntitlement, NoBackoff, NothingSeen
    <2> QED
      BY <1>1, <1>3, <1>4, <2>1, <2>2, Blanks DEF Init, TypeOK, BlankTypes
  <1> QED
    BY <1>5, <1>6, <1>7, BlankMemory DEF IInv

LEMMA RestartStep == IInv /\ Restart => IInv'
  <1> SUFFICES ASSUME IInv, Restart PROVE IInv'
    OBVIOUS
  <1>1. now \in Nat /\ now' = now /\ brain \in Row /\ row' = brain /\ brain' = brain
    BY Typed DEF IInv, TypedFacts, Restart
  <1>2. NothingRemembered'
    BY <1>1 DEF Restart, NothingRemembered, Awake
  <1>3. Rows'
    <2>1. Behind(brain, brain)
      BY <1>1, RowFields DEF Behind
    <2> QED
      BY <1>1, <1>2, <2>1 DEF IInv, Rows, NothingRemembered
  <1>4. TypeOK'
    <2>1. nap' \in [kind : {"none", "wait", "unhealthy"}, until : Nat]
      BY <1>1 DEF Restart, Awake
    <2>2. events' \in 0..MaxEvents
      BY CountTypes DEF IInv, Restart
    <2>3. TypeOK
      BY DEF IInv
    <2> HIDE DEF NoFire, NoHandoff, NoEntitlement, NoBackoff, NothingSeen
    <2> QED
      BY <2>1, <2>2, <2>3, Blanks DEF Restart, TypeOK, BlankTypes
  <1> QED
    BY <1>2, <1>3, <1>4, BlankMemory DEF IInv

-----------------------------------------------------------------------------
(* Falling asleep.                                                         *)

LEMMA NapLength ==
    ASSUME NEW r \in Row, NEW p \in BOOLEAN, NEW b, b.until \in Int, now \in Nat
    PROVE  LET n == NapFor(r, p, b) IN
           /\ n \in [kind : {"none", "wait", "unhealthy"}, until : Nat]
           /\ n.kind # "unhealthy"
           /\ n.kind = "none" => n.until <= now
           /\ n.kind = "wait" /\ p => n.until <= now + Recheck
           /\ n.kind = "wait" /\ ~p /\ r.enabled /\ r.next # None =>
                 n.until <= r.next \/ n.until <= b.until
  <1> DEFINE at == WakeAt(r, p, b)
             wait == Least(MaxSleep, at - now)
             timeout == IF p THEN Least(Recheck, wait) ELSE wait
             n == NapFor(r, p, b)
  <1>1. r.next \in Int /\ MaxSleep \in Nat /\ Recheck \in Nat
    BY RowFields, Constants
  <1>2. at \in Int /\ (~p /\ r.enabled /\ r.next # None => at = r.next \/ at = b.until)
    BY <1>1 DEF WakeAt, Greatest
  <1> HIDE DEF at
  <1>3. wait \in Int /\ wait <= at - now
    BY <1>1, <1>2 DEF Least
  <1> HIDE DEF wait
  <1>4. timeout \in Int /\ (p => timeout <= Recheck) /\ (~p => timeout = wait)
    BY <1>1, <1>3 DEF Least
  <1> HIDE DEF timeout
  <1>5. n = IF timeout <= 0 THEN Awake ELSE [kind |-> "wait", until |-> now + timeout]
    BY DEF NapFor, timeout, wait, at
  <1> HIDE DEF n
  <1>6. CASE timeout <= 0
    <2>1. n.kind = "none" /\ n.until = now /\ n \in [kind : {"none", "wait", "unhealthy"}, until : Nat]
      BY <1>5, <1>6 DEF Awake
    <2> QED
      BY <2>1 DEF n
  <1>7. CASE ~(timeout <= 0)
    <2>1. /\ n.kind = "wait" /\ n.until = now + timeout
          /\ n \in [kind : {"none", "wait", "unhealthy"}, until : Nat]
      BY <1>4, <1>5, <1>7
    <2>2. p => n.until <= now + Recheck
      BY <1>1, <1>4, <2>1
    <2>3. ~p /\ r.enabled /\ r.next # None => n.until <= r.next \/ n.until <= b.until
      BY <1>1, <1>2, <1>3, <1>4, <2>1
    <2> QED
      BY <2>1, <2>2, <2>3 DEF n
  <1> QED
    BY <1>6, <1>7

\* What the engine leaves behind decides how long it may sleep: a slot is parked only
\* by a follower, and a back-off is about the cadence of the row.
LEMMA SleepNaps ==
    ASSUME Sleep, now \in Nat, now' = now, row' \in Row, backoff'.until \in Int,
           leader' = leader, parked' # None /\ row'.enabled => ~leader,
           changed' \/ backoff'.until = None \/ backoff'.cad = row'.cad
    PROVE  /\ nap' \in [kind : {"none", "wait", "unhealthy"}, until : Nat]
           /\ Naps'
  <1> DEFINE p == parked' # None /\ parked' = row'.next
  <1>1. p \in BOOLEAN /\ nap' = NapFor(row', p, backoff')
    BY DEF Sleep
  <1> HIDE DEF p
  <1>2. /\ nap' \in [kind : {"none", "wait", "unhealthy"}, until : Nat]
        /\ nap'.kind # "unhealthy"
        /\ nap'.kind = "none" => nap'.until <= now
        /\ nap'.kind = "wait" /\ p => nap'.until <= now + Recheck
        /\ nap'.kind = "wait" /\ ~p /\ row'.enabled /\ row'.next # None =>
              nap'.until <= row'.next \/ nap'.until <= backoff'.until
    BY <1>1, NapLength
  <1>3. NapFits'
    <2>1. row'.next # None => (p <=> parked' = row'.next)
      BY DEF p
    <2>2. ASSUME nap'.kind = "wait", ~changed', row'.enabled, row'.next # None
          PROVE  IF parked' = row'.next
                 THEN /\ nap'.until <= now + Recheck
                      /\ leader' => nap'.until <= since'.leader + Recheck
                 ELSE /\ nap'.until <= row'.next \/ nap'.until <= backoff'.until
                      /\ backoff'.until = None \/ backoff'.cad = row'.cad
      <3>1. CASE parked' = row'.next
        BY <1>2, <2>1, <2>2, <3>1
      <3>2. CASE parked' # row'.next
        BY <1>2, <2>1, <2>2, <3>2
      <3> QED
        BY <3>1, <3>2
    <2> QED
      BY <1>2, <2>2 DEF NapFits
  <1> QED
    BY <1>2, <1>3 DEF Naps

-----------------------------------------------------------------------------
(* Waking up: what the process remembers is pruned.                        *)

SeenTypes == [slot : MaybeSlot, cad : Cadence, onTime : SUBSET (Cadence \X Moment),
              followed : BOOLEAN, redefined : BOOLEAN]

SeenAgain(f, d) == [seen EXCEPT !.cad = row.cad, !.followed = f, !.redefined = d]

LEMMA SeenNowIs ==
    ASSUME TypeOK
    PROVE  /\ SeenNow \in SeenTypes
           /\ SeenNow.slot = row.next /\ SeenNow.cad = row.cad
           /\ row.enabled /\ seen.slot = row.next =>
                 /\ SeenNow.onTime = seen.onTime
                 /\ SeenNow.followed <=> seen.followed /\ seen.cad = row.cad
                 /\ SeenNow.redefined <=> seen.redefined \/ seen.cad # row.cad
           /\ ~(row.enabled /\ seen.slot = row.next) =>
                 SeenNow.onTime = {} /\ ~SeenNow.followed
  <1>1. /\ seen \in SeenTypes /\ row.next \in MaybeSlot /\ row.cad \in Cadence
        /\ row.enabled \in BOOLEAN
    BY RowFields DEF TypeOK, SeenTypes
  <1>2. CASE row.enabled /\ seen.slot = row.next
    <2>1. ASSUME NEW f \in BOOLEAN, NEW d \in BOOLEAN
          PROVE  /\ SeenAgain(f, d) \in SeenTypes
                 /\ SeenAgain(f, d).slot = seen.slot /\ SeenAgain(f, d).cad = row.cad
                 /\ SeenAgain(f, d).onTime = seen.onTime
                 /\ SeenAgain(f, d).followed = f /\ SeenAgain(f, d).redefined = d
      BY <1>1 DEF SeenTypes, SeenAgain
    <2> DEFINE followed == seen.followed /\ seen.cad = row.cad
               redefined == seen.redefined \/ ~(seen.cad = row.cad)
    <2>2. followed \in BOOLEAN /\ redefined \in BOOLEAN
      BY <1>1 DEF SeenTypes
    <2>3. SeenNow = SeenAgain(followed, redefined)
      BY <1>2 DEF SeenNow, SeenAgain
    <2> HIDE DEF followed, redefined
    <2>4. /\ SeenNow \in SeenTypes /\ SeenNow.slot = seen.slot /\ SeenNow.cad = row.cad
          /\ SeenNow.onTime = seen.onTime
          /\ SeenNow.followed = followed /\ SeenNow.redefined = redefined
      BY <2>1, <2>2, <2>3
    <2> QED
      BY <1>2, <2>4 DEF followed, redefined
  <1>3. CASE ~(row.enabled /\ seen.slot = row.next)
    <2>1. SeenNow = [NothingSeen EXCEPT !.slot = row.next, !.cad = row.cad]
      BY <1>3 DEF SeenNow
    <2>2. NothingSeen \in SeenTypes
      BY Blanks DEF BlankTypes, SeenTypes
    <2>3. NothingSeen.onTime = {} /\ NothingSeen.followed = FALSE
      BY DEF NothingSeen
    <2> HIDE DEF NothingSeen
    <2>4. /\ SeenNow \in SeenTypes /\ SeenNow.slot = row.next /\ SeenNow.cad = row.cad
          /\ SeenNow.onTime = NothingSeen.onTime /\ SeenNow.followed = NothingSeen.followed
      BY <1>1, <2>1, <2>2 DEF SeenTypes
    <2> QED
      BY <1>3, <2>3, <2>4
  <1> QED
    BY <1>2, <1>3

LEMMA PrunedTypes ==
    ASSUME TypeOK
    PROVE  /\ PrunedHandoff \in [slot : MaybeSlot, cad : Cadence]
           /\ PrunedEntitled \in [slot : MaybeSlot, cad : Cadence, at : Moment \cup {None}]
           /\ PrunedEntitled.slot = None <=> PrunedEntitled.at = None
           /\ PrunedBackoff \in [count : Nat, until : Int, cad : Cadence]
           /\ PrunedBackoff.until = None \/ PrunedBackoff.cad = row.cad
           /\ PrunedParked \in MaybeSlot
           /\ PrunedHandoff.slot # None => HandoffLives /\ PrunedHandoff = handoff
           /\ PrunedEntitled.slot # None => EntitlementLives /\ PrunedEntitled = entitled
  <1>1. NoBackoff.until = None /\ NoHandoff.slot = None /\ NoEntitlement.slot = None
    BY DEF NoBackoff, NoHandoff, NoEntitlement
  <1> HIDE DEF NoBackoff, NoHandoff, NoEntitlement
  <1> QED
    BY <1>1, Blanks DEF TypeOK, BlankTypes, PrunedHandoff, PrunedEntitled, PrunedBackoff, PrunedParked

\* A pruned memory holds what speaks for the pending slot, and nothing else.
LEMMA WakeMemory ==
    ASSUME IInv, WakeUp, Clock' = now
    PROVE  /\ Memory' /\ (Lapsed \/ Held)' /\ HandoffKept'
           /\ seen' \in SeenTypes /\ seen'.slot = row.next /\ seen'.cad = row.cad
           /\ entitled'.slot # None => entitled'.at <= now
  <1>1. TypedFacts /\ TypeOK
    BY Typed DEF IInv
  <1>2. /\ seen' = SeenNow /\ handoff' = PrunedHandoff /\ entitled' = PrunedEntitled
        /\ now' = now /\ pc = "asleep"
    BY DEF WakeUp, Runnable
  <1> DEFINE same == row.enabled /\ seen.slot = row.next
  <1>3. /\ seen' \in SeenTypes /\ seen'.slot = row.next /\ seen'.cad = row.cad
        /\ same => /\ seen'.onTime = seen.onTime
                   /\ seen'.followed <=> seen.followed /\ seen.cad = row.cad
                   /\ seen'.redefined <=> seen.redefined \/ seen.cad # row.cad
        /\ ~same => seen'.onTime = {} /\ ~seen'.followed
    BY <1>1, <1>2, SeenNowIs
  <1>4. /\ handoff'.slot # None => HandoffLives /\ handoff' = handoff
        /\ entitled'.slot # None => EntitlementLives /\ entitled' = entitled
    BY <1>1, <1>2, PrunedTypes
  <1>5. /\ HandoffLives => row.enabled /\ handoff.slot = row.next /\ handoff.cad = row.cad
        /\ row.enabled /\ handoff.slot = row.next /\ handoff.cad = row.cad => HandoffLives
    <2>1. handoff \in [slot : MaybeSlot, cad : Cadence]
      BY <1>1 DEF TypeOK
    <2> QED
      BY <2>1 DEF HandoffLives
  <1>6. /\ handoff.slot # None => /\ seen.slot = handoff.slot /\ seen.cad = handoff.cad
                                  /\ seen.followed
        /\ entitled.slot # None => /\ seen.slot = entitled.slot /\ entitled.at <= now
                                   /\ <<entitled.cad, entitled.at>> \in seen.onTime
        /\ Lapsed \/ Held \/ Over
        /\ HandoffKept \/ Over
    BY DEF IInv, Memory
  <1>7. same => ~Over
    <2>1. row.next \in MaybeSlot /\ row.next \in Int
      BY <1>1, RowFields DEF TypedFacts
    <2> QED
      BY <2>1 DEF Over, Settled, Past
  <1>8. handoff'.slot # None => seen'.slot = handoff'.slot /\ seen'.cad = handoff'.cad /\ seen'.followed
    BY <1>3, <1>4, <1>5, <1>6
  <1>9. entitled'.slot # None => /\ seen'.slot = entitled'.slot /\ entitled'.at <= now
                                 /\ <<entitled'.cad, entitled'.at>> \in seen'.onTime
    <2> SUFFICES ASSUME entitled'.slot # None
                 PROVE  /\ seen'.slot = entitled'.slot /\ entitled'.at <= now
                        /\ <<entitled'.cad, entitled'.at>> \in seen'.onTime
      OBVIOUS
    <2>1. entitled' = entitled /\ row.enabled /\ entitled.slot = row.next
      BY <1>4 DEF EntitlementLives
    <2>2. seen.slot = entitled.slot /\ entitled.at <= now /\ <<entitled.cad, entitled.at>> \in seen.onTime
      BY <1>6, <2>1
    <2>3. seen'.onTime = seen.onTime
      BY <1>3, <2>1, <2>2
    <2> QED
      BY <1>3, <2>1, <2>2, <2>3
  <1>10. Clock = now
    BY <1>2 DEF Clock
  <1>11. (Lapsed \/ Held)'
    <2>1. CASE ~same
      BY <1>3, <2>1 DEF Lapsed
    <2>2. CASE same /\ Lapsed
      BY <1>2, <1>3, <1>10, <2>2 DEF Lapsed
    <2>3. CASE same /\ Held /\ EntitlementLives
      <3>1. entitled' = entitled
        BY <1>2, <2>3 DEF PrunedEntitled
      <3>2. entitled.slot = seen.slot /\ entitled.slot # None /\ entitled.cad = seen.cad
        BY <2>3 DEF Held
      <3>3. CASE seen.cad = row.cad
        BY <1>3, <2>3, <3>1, <3>2, <3>3 DEF Held
      <3>4. CASE seen.cad # row.cad
        BY <1>3, <2>3, <3>4 DEF Lapsed
      <3> QED
        BY <3>3, <3>4
    <2>4. CASE same /\ Held /\ ~EntitlementLives
      <3>1. entitled.slot = seen.slot /\ entitled.slot # None
        BY <2>4 DEF Held
      <3>2. \/ ~(now - entitled.at <= EntitlementAge)
            \/ handoff.slot # None /\ ~HandoffLives
        BY <2>4, <3>1 DEF EntitlementLives
      <3>3. CASE ~(now - entitled.at <= EntitlementAge)
        <4>1. now - entitled.at > EntitlementAge
          BY <1>1, <3>3, Constants DEF TypedFacts
        <4>2. <<entitled.cad, entitled.at>> \in seen'.onTime
          BY <1>3, <1>6, <2>4, <3>1
        <4>3. <<entitled.cad, entitled.at>>[2] = entitled.at
          OBVIOUS
        <4> QED
          BY <4>1, <4>2, <4>3 DEF Lapsed
      <3>4. CASE handoff.slot # None /\ ~HandoffLives
        <4>1. seen.cad # row.cad
          BY <1>5, <1>6, <2>4, <3>4
        <4> QED
          BY <1>3, <2>4, <4>1 DEF Lapsed
      <3> QED
        BY <3>2, <3>3, <3>4
    <2> QED
      BY <1>6, <1>7, <2>1, <2>2, <2>3, <2>4
  <1>12. HandoffKept'
    <2>1. CASE ~same \/ ~seen'.followed
      BY <1>3, <2>1 DEF HandoffKept
    <2>2. CASE same /\ seen'.followed
      <3>1. seen.followed /\ seen.cad = row.cad
        BY <1>3, <2>2
      <3>2. HandoffKept
        BY <1>6, <1>7, <2>2
      <3>3. CASE handoff.slot = seen.slot /\ handoff.cad = seen.cad
        <4>1. HandoffLives
          BY <1>5, <2>2, <3>1, <3>3
        <4>2. handoff' = handoff
          BY <1>2, <4>1 DEF PrunedHandoff
        <4> QED
          BY <1>3, <2>2, <3>1, <3>3, <4>2 DEF HandoffKept
      <3>4. CASE Clock - seen.slot > PromotionGrace
        BY <1>3, <1>10, <2>2, <3>4 DEF HandoffKept
      <3> QED
        BY <3>1, <3>2, <3>3, <3>4 DEF HandoffKept
    <2> QED
      BY <2>1, <2>2
  <1> QED
    BY <1>2, <1>3, <1>8, <1>9, <1>11, <1>12 DEF Memory

LEMMA WakeTypes ==
    ASSUME IInv, WakeUp, pc' \in {"asleep", "claimed"}, fire' \in Fire, parked' \in MaybeSlot,
           nap' \in [kind : {"none", "wait", "unhealthy"}, until : Nat]
    PROVE  TypeOK'
  <1>1. TypeOK
    BY DEF IInv
  <1>2. /\ handoff' \in [slot : MaybeSlot, cad : Cadence]
        /\ entitled' \in [slot : MaybeSlot, cad : Cadence, at : Moment \cup {None}]
        /\ entitled'.slot = None <=> entitled'.at = None
        /\ backoff' \in [count : Nat, until : Int, cad : Cadence]
    BY <1>1, PrunedTypes DEF WakeUp
  <1>3. seen' \in SeenTypes
    BY <1>1, SeenNowIs DEF WakeUp
  <1>4. changed' \in BOOLEAN
    <2>1. ASSUME NEW a \in BOOLEAN, NEW b \in BOOLEAN PROVE (a /\ b) \in BOOLEAN
      OBVIOUS
    <2>2. changed \in BOOLEAN /\ (nap.kind # "wait") \in BOOLEAN
      BY <1>1 DEF TypeOK
    <2> QED
      BY <2>1, <2>2 DEF WakeUp
  <1>5. /\ now' = now /\ policy' = policy /\ row' = row /\ brain' = brain /\ leader' = leader
        /\ healthy' = healthy /\ since' = since /\ events' = events
    BY DEF WakeUp, gates
  <1> QED
    BY <1>1, <1>2, <1>3, <1>4, <1>5 DEF TypeOK, SeenTypes

LEMMA IterateUnhealthyStep == IInv /\ IterateUnhealthy => IInv'
  <1> SUFFICES ASSUME IInv, IterateUnhealthy PROVE IInv'
    OBVIOUS
  <1>1. TypedFacts /\ TypeOK
    BY Typed DEF IInv
  <1>2. /\ WakeUp /\ pc' = pc /\ fire' = fire /\ pc = "asleep" /\ now' = now /\ ~healthy
        /\ row' = row /\ brain' = brain /\ healthy' = healthy
        /\ nap' = [kind |-> "unhealthy", until |-> now + UnhealthySleep]
    BY DEF IterateUnhealthy, WakeUp, Runnable, gates
  <1>3. TypeOK'
    <2>1. nap' \in [kind : {"none", "wait", "unhealthy"}, until : Nat]
      BY <1>1, <1>2, Constants DEF TypedFacts
    <2>2. parked' \in MaybeSlot /\ fire' \in Fire
      BY <1>1, PrunedTypes DEF IterateUnhealthy, TypeOK
    <2> QED
      BY <1>2, <2>1, <2>2, WakeTypes
  <1>4. Memory'
    BY <1>2, WakeMemory DEF Clock
  <1>5. Rows' /\ Claim' /\ Plans'
    BY <1>2 DEF IInv, Rows, Claim, Plans, Draining
  <1>6. Naps'
    BY <1>1, <1>2, Constants DEF Naps, NapFits, TypedFacts
  <1> QED
    BY <1>3, <1>4, <1>5, <1>6 DEF IInv

LEMMA IterateIdleStep == IInv /\ IterateIdle => IInv'
  <1> SUFFICES ASSUME IInv, IterateIdle PROVE IInv'
    OBVIOUS
  <1>1. TypedFacts /\ TypeOK
    BY Typed DEF IInv
  <1>2. /\ WakeUp /\ Sleep /\ pc' = "asleep" /\ fire' = NoFire /\ pc = "asleep" /\ now' = now
        /\ row' = row /\ brain' = brain /\ leader' = leader /\ backoff' = PrunedBackoff
        /\ parked' = IF leader /\ row.enabled THEN None ELSE PrunedParked
    BY DEF IterateIdle, WakeUp, Runnable, gates, Sleep
  <1>3. parked' # None /\ row'.enabled => ~leader
    BY <1>2
  <1>4. /\ backoff'.until \in Int
        /\ backoff'.until = None \/ backoff'.cad = row'.cad
        /\ parked' \in MaybeSlot
    BY <1>1, <1>2, PrunedTypes, Blanks DEF BlankTypes
  <1>5. nap' \in [kind : {"none", "wait", "unhealthy"}, until : Nat] /\ Naps'
    <2>1. now \in Nat /\ row' \in Row
      BY <1>1, <1>2 DEF TypedFacts
    <2>2. Sleep /\ now' = now /\ leader' = leader
      BY <1>2
    <2> QED
      BY <1>3, <1>4, <2>1, <2>2, SleepNaps
  <1>6. TypeOK'
    BY <1>2, <1>4, <1>5, Blanks, WakeTypes DEF BlankTypes
  <1>7. Memory'
    BY <1>2, WakeMemory DEF Clock
  <1>8. Rows' /\ Claim' /\ Plans'
    BY <1>2 DEF IInv, Rows, Claim, Plans, Draining
  <1> QED
    BY <1>5, <1>6, <1>7, <1>8 DEF IInv

LEMMA ClaimedFire ==
    ASSUME NEW r \in Row, NEW t \in Moment
    PROVE  LET f == [NoFire EXCEPT !.entry = r, !.at = t, !.from = t] IN
           f \in Fire /\ f.entry = r /\ f.at = t /\ f.sent = 0
  <1>1. NoFire \in Fire /\ NoFire.sent = 0
    BY Blanks DEF BlankTypes, NoFire
  <1> HIDE DEF NoFire
  <1> QED
    BY <1>1 DEF Fire

LEMMA IterateDueStep == IInv /\ IterateDue => IInv'
  <1> SUFFICES ASSUME IInv, IterateDue PROVE IInv'
    OBVIOUS
  <1>1. TypedFacts /\ TypeOK /\ now \in Moment
    BY Typed DEF IInv, TypeOK
  <1>2. /\ WakeUp /\ pc' = "claimed" /\ pc = "asleep" /\ now' = now
        /\ row' = row /\ brain' = brain /\ parked' = None /\ nap' = nap
        /\ row.next \in 0..now
    BY DEF IterateDue, WakeUp, Runnable, gates, Due
  <1>3. fire' \in Fire /\ fire'.entry = row /\ fire'.at = now /\ fire'.sent = 0
    BY <1>1, ClaimedFire DEF IterateDue, TypedFacts
  <1>4. TypeOK'
    <2>1. nap' \in [kind : {"none", "wait", "unhealthy"}, until : Nat] /\ parked' \in MaybeSlot
      BY <1>1, <1>2, Blanks DEF TypeOK, BlankTypes
    <2> QED
      BY <1>2, <1>3, <2>1, WakeTypes
  <1>5. /\ Memory' /\ seen'.slot = row.next /\ seen'.cad = row.cad
        /\ entitled'.slot # None => entitled'.at <= now
    BY <1>2, <1>3, WakeMemory DEF Clock
  <1>6. Rows'
    BY <1>2, <1>3 DEF IInv, Rows
  <1>7. Claim'
    BY <1>1, <1>2, <1>3, <1>5 DEF Claim, TypedFacts
  <1>8. Plans' /\ Naps'
    BY <1>2 DEF Plans, Draining, Naps
  <1> QED
    BY <1>4, <1>5, <1>6, <1>7, <1>8 DEF IInv

-----------------------------------------------------------------------------
(* An iteration that ends: the engine falls asleep.                        *)

\* Whatever ended it, what remains is to say what became of the rows and the marks.
LEMMA AsleepStep ==
    ASSUME IInv, pc # "asleep", Sleep, UNCHANGED <<now, policy, leader, healthy, since>>,
           brain' \in Row, row' \in Row, changed' \in BOOLEAN, events' \in 0..MaxEvents,
           parked' \in MaybeSlot, parked' # None => ~leader,
           handoff' \in [slot : MaybeSlot, cad : Cadence],
           entitled' \in [slot : MaybeSlot, cad : Cadence, at : Moment \cup {None}],
           entitled'.slot = None <=> entitled'.at = None,
           backoff' \in [count : Nat, until : Int, cad : Cadence],
           changed' \/ backoff'.until = None \/ backoff'.cad = row'.cad,
           seen' \in SeenTypes,
           Fits(row', now), Fits(brain', now), Behind(row', brain'),
           Memory'
    PROVE  IInv'
  <1>1. TypedFacts /\ TypeOK
    BY Typed DEF IInv
  <1>2. pc' = "asleep" /\ fire' = NoFire
    BY DEF Sleep
  <1>3. nap' \in [kind : {"none", "wait", "unhealthy"}, until : Nat] /\ Naps'
    <2>1. now \in Nat /\ backoff'.until \in Int
      BY <1>1 DEF TypedFacts
    <2> QED
      BY <2>1, SleepNaps
  <1>4. TypeOK'
    <2>1. NoFire \in Fire
      BY Blanks DEF BlankTypes
    <2> HIDE DEF NoFire
    <2> QED
      BY <1>1, <1>2, <1>3, <2>1 DEF TypeOK, SeenTypes
  <1>5. Rows' /\ Claim' /\ Plans'
    BY <1>2 DEF Rows, Claim, Plans, Draining
  <1> QED
    BY <1>3, <1>4, <1>5 DEF IInv

\* Marks that stay as they are, and what an iteration leaves alone, keep their types.
MarkTypes ==
    /\ now \in Nat /\ row \in Row /\ brain \in Row /\ changed \in BOOLEAN
    /\ events \in 0..MaxEvents /\ parked = None /\ parked \in MaybeSlot
    /\ handoff \in [slot : MaybeSlot, cad : Cadence]
    /\ entitled \in [slot : MaybeSlot, cad : Cadence, at : Moment \cup {None}]
    /\ entitled.slot = None <=> entitled.at = None
    /\ seen \in SeenTypes
    /\ Fits(row, now) /\ Fits(brain, now) /\ Behind(row, brain)

LEMMA MarksAreTyped ==
    ASSUME IInv, pc # "asleep"
    PROVE  MarkTypes
  BY Constants DEF IInv, TypeOK, Rows, Claim, MarkTypes, SeenTypes

\* An iteration leaves no Over behind: what holds of the marks holds strictly.
LEMMA Strictly ==
    ASSUME IInv, pc # "asleep", pc' = "asleep", now' = now
    PROVE  /\ Lapsed \/ Held
           /\ HandoffKept
           /\ Clock = fire.at /\ Clock' = now /\ Clock <= Clock' /\ Clock' \in Nat
           /\ handoff.slot # None => /\ seen.slot = handoff.slot /\ seen.cad = handoff.cad
                                     /\ seen.followed
           /\ entitled.slot # None => /\ seen.slot = entitled.slot /\ entitled.at <= now
                                      /\ <<entitled.cad, entitled.at>> \in seen.onTime
  <1>1. now \in Nat /\ fire.at <= now
    BY Typed DEF IInv, Claim, TypedFacts
  <1> QED
    BY <1>1 DEF IInv, Memory, Over, Clock

LEMMA MarksKept ==
    ASSUME IInv, pc # "asleep", pc' = "asleep", now' = now, UNCHANGED <<marks, seen>>
    PROVE  Memory'
  <1>1. handoff' = handoff /\ entitled' = entitled /\ seen' = seen
    BY DEF marks
  <1>2. (Lapsed => Lapsed') /\ (HandoffKept => HandoffKept')
    BY <1>1, Strictly, TimeGoesOn DEF IInv
  <1>3. Held => Held'
    BY <1>1 DEF Held
  <1>4. (Lapsed \/ Held)' /\ HandoffKept'
    BY <1>2, <1>3, Strictly
  <1> QED
    BY <1>1, <1>4, Strictly DEF Memory

\* A drain that ends gives the marks up: its slot is settled, or nothing spoke for it.
LEMMA MarksConsumed ==
    ASSUME IInv, Draining, pc' = "asleep", now' = now, seen' = seen, Consume,
           fire.owed => Settled(seen.slot)'
    PROVE  /\ Memory'
           /\ parked' = None
           /\ handoff' \in [slot : MaybeSlot, cad : Cadence]
           /\ entitled' \in [slot : MaybeSlot, cad : Cadence, at : Moment \cup {None}]
           /\ entitled'.slot = None <=> entitled'.at = None
  <1>1. pc # "asleep" /\ TypedFacts /\ PlanFits
    BY Typed DEF Draining, IInv, Plans
  <1>2. MarkTypes
    BY <1>1, MarksAreTyped
  <1>3. /\ entitled' = NoEntitlement /\ parked' = parked
        /\ handoff' = IF fire.handoff THEN NoHandoff ELSE handoff
    BY DEF Consume
  <1>4. /\ entitled'.slot = None /\ entitled'.at = None
        /\ entitled' \in [slot : MaybeSlot, cad : Cadence, at : Moment \cup {None}]
        /\ NoHandoff \in [slot : MaybeSlot, cad : Cadence] /\ NoHandoff.slot = None
    BY <1>3, Blanks DEF BlankTypes, NoHandoff
  <1> HIDE DEF NoHandoff, NoEntitlement
  <1>5. handoff' \in [slot : MaybeSlot, cad : Cadence]
    BY <1>2, <1>3, <1>4 DEF MarkTypes
  <1>6. handoff'.slot # None => /\ seen'.slot = handoff'.slot /\ seen'.cad = handoff'.cad
                                /\ seen'.followed
    BY <1>1, <1>3, <1>4, Strictly
  <1>7. (Lapsed \/ Held \/ Over)' /\ (HandoffKept \/ Over)'
    <2>1. CASE fire.owed
      BY <2>1 DEF Over
    <2>2. CASE ~fire.owed
      <3>1. Lapsed'
        <4>1. Lapsed /\ Clock <= Clock' /\ Clock' \in Nat /\ Clock \in Nat
          BY <1>1, <2>2, Strictly DEF PlanFits, TypedFacts
        <4>2. \A attempt \in seen.onTime : attempt[2] \in Nat
          BY <1>1, Constants DEF TypedFacts
        <4>3. \A attempt \in seen.onTime :
                 Clock - attempt[2] > EntitlementAge => Clock' - attempt[2] > EntitlementAge
          BY <4>1, <4>2, Constants
        <4> QED
          BY <4>1, <4>3 DEF Lapsed
      <3>2. CASE fire.handoff
        <4>1. fire.at - seen.slot > PromotionGrace /\ Clock = fire.at /\ Clock <= Clock' /\ Clock' \in Nat
          BY <1>1, <2>2, <3>2, Strictly DEF PlanFits
        <4>2. seen.slot \in Int /\ fire.at \in Nat
          BY <1>1, SlotsAreInts DEF TypedFacts
        <4>3. Clock' - seen.slot > PromotionGrace
          BY <4>1, <4>2, Constants
        <4> QED
          BY <3>1, <4>3 DEF HandoffKept
      <3>3. CASE ~fire.handoff
        <4>1. handoff' = handoff
          BY <1>3, <3>3
        <4> QED
          BY <1>1, <3>1, <4>1, Strictly, TimeGoesOn DEF IInv
      <3> QED
        BY <3>2, <3>3
    <2> QED
      BY <2>1, <2>2
  <1>8. Memory'
    BY <1>4, <1>6, <1>7 DEF Memory
  <1> QED
    BY <1>2, <1>3, <1>4, <1>5, <1>8 DEF MarkTypes

\* The two back-offs an iteration may leave behind.
LEMMA BackoffTypes ==
    ASSUME IInv
    PROVE  /\ NoBackoff \in [count : Nat, until : Int, cad : Cadence] /\ NoBackoff.until = None
           /\ ReturnFalse => /\ backoff' \in [count : Nat, until : Int, cad : Cadence]
                             /\ backoff'.cad = fire.entry.cad /\ Sleep
  <1>1. NoBackoff.until = None /\ NoBackoff \in [count : Nat, until : Int, cad : Cadence]
    BY Blanks DEF NoBackoff, BlankTypes
  <1>2. ASSUME ReturnFalse
        PROVE  /\ backoff' \in [count : Nat, until : Int, cad : Cadence]
               /\ backoff'.cad = fire.entry.cad /\ Sleep
    <2>1. /\ backoff.count \in Nat /\ now \in Nat /\ fire.entry.cad \in Cadence
          /\ BackoffCap \in Nat /\ BackoffBase \in Nat
      BY Typed, RowFields, Constants DEF IInv, TypedFacts
    <2>2. BackoffBase * 2 ^ backoff.count \in Int
      BY <2>1
    <2>3. now + Least(BackoffCap, BackoffBase * 2 ^ backoff.count) \in Int
      BY <2>1, <2>2 DEF Least
    <2> QED
      BY <1>2, <2>1, <2>3 DEF ReturnFalse
  <1> QED
    BY <1>1, <1>2

\* An iteration that leaves rows and marks as they are.
LEMMA LeftAloneStep ==
    ASSUME IInv, pc # "asleep", Sleep, UNCHANGED <<now, policy, row, brain, gates, changed, marks, seen>>,
           events' \in 0..MaxEvents,
           backoff' \in [count : Nat, until : Int, cad : Cadence],
           backoff'.until = None \/ backoff'.cad = fire.entry.cad
    PROVE  IInv'
  <1>1. MarkTypes
    BY MarksAreTyped
  <1>2. /\ row' = row /\ brain' = brain /\ changed' = changed /\ parked' = parked
        /\ handoff' = handoff /\ entitled' = entitled /\ seen' = seen /\ now' = now
        /\ policy' = policy /\ leader' = leader /\ healthy' = healthy /\ since' = since
        /\ pc' = "asleep"
    BY DEF marks, gates, Sleep
  <1>3. Memory'
    BY <1>2, MarksKept
  <1>4. changed \/ row.cad = fire.entry.cad
    BY DEF IInv, Claim
  <1> HIDE DEF Fits, Behind
  <1> QED
    BY <1>1, <1>2, <1>3, <1>4, AsleepStep DEF MarkTypes

LEMMA ClaimUnhealthyStep == IInv /\ ClaimUnhealthy => IInv'
  <1> SUFFICES ASSUME IInv, ClaimUnhealthy PROVE IInv'
    OBVIOUS
  <1>1. events' \in 0..MaxEvents /\ pc # "asleep" /\ Sleep /\ backoff' = NoBackoff
    BY MarksAreTyped DEF ClaimUnhealthy, ReturnTrue, MarkTypes
  <1>2. backoff' \in [count : Nat, until : Int, cad : Cadence] /\ backoff'.until = None
    BY <1>1, BackoffTypes
  <1> QED
    BY <1>1, <1>2, LeftAloneStep DEF ClaimUnhealthy

LEMMA AdvanceRefusedStep == IInv /\ AdvanceRefused => IInv'
  <1> SUFFICES ASSUME IInv, AdvanceRefused PROVE IInv'
    OBVIOUS
  <1>1. events' \in 0..MaxEvents /\ pc # "asleep"
    BY MarksAreTyped DEF AdvanceRefused, MarkTypes
  <1>2. /\ backoff' \in [count : Nat, until : Int, cad : Cadence]
        /\ backoff'.cad = fire.entry.cad /\ Sleep
    BY BackoffTypes DEF AdvanceRefused
  <1> QED
    BY <1>1, <1>2, LeftAloneStep DEF AdvanceRefused

LEMMA SeenFollowed ==
    ASSUME seen \in SeenTypes
    PROVE  LET s == [seen EXCEPT !.followed = TRUE] IN
           /\ s \in SeenTypes /\ s.slot = seen.slot /\ s.cad = seen.cad
           /\ s.onTime = seen.onTime /\ s.followed = TRUE /\ s.redefined = seen.redefined
  BY DEF SeenTypes

LEMMA ParkStep == IInv /\ Park => IInv'
  <1> SUFFICES ASSUME IInv, Park PROVE IInv'
    OBVIOUS
  <1>1. MarkTypes /\ pc # "asleep" /\ TypedFacts
    BY MarksAreTyped, Typed DEF Park, IInv
  <1>2. /\ row' = row /\ brain' = brain /\ changed' = changed /\ entitled' = entitled
        /\ now' = now /\ policy' = policy /\ leader' = leader /\ healthy' = healthy
        /\ since' = since /\ events' = events /\ ~leader /\ Sleep /\ pc' = "asleep"
        /\ backoff' = NoBackoff /\ parked' = fire.entry.next
    BY DEF Park, gates, ReturnTrue, Sleep
  <1>3. /\ seen.slot = fire.entry.next /\ seen.cad = fire.entry.cad
        /\ seen.slot \in MaybeSlot /\ seen.cad \in Cadence
    BY <1>1 DEF IInv, Claim, Park, TypedFacts
  <1>4. /\ handoff' \in [slot : MaybeSlot, cad : Cadence]
        /\ handoff'.slot = seen.slot /\ handoff'.cad = seen.cad /\ parked' \in MaybeSlot
    BY <1>2, <1>3 DEF Park
  <1>5. /\ seen' \in SeenTypes /\ seen'.slot = seen.slot /\ seen'.cad = seen.cad
        /\ seen'.onTime = seen.onTime /\ seen'.followed = TRUE /\ seen'.redefined = seen.redefined
    BY <1>1, SeenFollowed DEF MarkTypes, Park
  <1>6. Memory'
    <2>1. HandoffKept'
      BY <1>4, <1>5 DEF HandoffKept
    <2>2. Lapsed => Lapsed'
      <3>1. Clock \in Nat /\ Clock <= Clock' /\ Clock' \in Nat
        BY <1>1, <1>2, Strictly DEF TypedFacts
      <3>2. \A attempt \in seen.onTime : attempt[2] \in Nat
        BY <1>1, Constants DEF TypedFacts
      <3>3. \A attempt \in seen.onTime :
               Clock - attempt[2] > EntitlementAge => Clock' - attempt[2] > EntitlementAge
        BY <3>1, <3>2, Constants
      <3> QED
        BY <1>5, <3>3 DEF Lapsed
    <2>3. Held => Held'
      BY <1>2, <1>5 DEF Held
    <2> QED
      BY <1>1, <1>2, <1>4, <1>5, <2>1, <2>2, <2>3, Strictly DEF Memory
  <1>7. backoff' \in [count : Nat, until : Int, cad : Cadence] /\ backoff'.until = None
    BY <1>2, BackoffTypes
  <1> HIDE DEF Fits, Behind
  <1> QED
    BY <1>1, <1>2, <1>4, <1>5, <1>6, <1>7, AsleepStep DEF MarkTypes

LEMMA AbortStep == IInv /\ Abort => IInv'
  <1> SUFFICES ASSUME IInv, Abort PROVE IInv'
    OBVIOUS
  <1>1. MarkTypes /\ pc # "asleep" /\ Draining
    BY MarksAreTyped DEF Abort, Draining
  <1>2. /\ row' = row /\ brain' = brain /\ changed' = changed /\ seen' = seen
        /\ now' = now /\ policy' = policy /\ leader' = leader /\ healthy' = healthy
        /\ since' = since /\ events' = events /\ Sleep /\ pc' = "asleep" /\ backoff' = NoBackoff
    BY DEF Abort, gates, ReturnTrue, Sleep
  <1>3. backoff' \in [count : Nat, until : Int, cad : Cadence] /\ backoff'.until = None
    BY <1>2, BackoffTypes
  <1>4. CASE fire.sent > 0 /\ ~DefinitionChanged
    <2>1. Consume /\ ~fire.owed
      <3>1. fire.owed => fire.sent = 0
        BY <1>1 DEF IInv, Plans, PlanFits
      <3> QED
        BY <1>4, <3>1 DEF Abort
    <2>2. /\ Memory' /\ parked' = None
          /\ handoff' \in [slot : MaybeSlot, cad : Cadence]
          /\ entitled' \in [slot : MaybeSlot, cad : Cadence, at : Moment \cup {None}]
          /\ entitled'.slot = None <=> entitled'.at = None
      BY <1>1, <1>2, <2>1, MarksConsumed
    <2>3. None \in MaybeSlot
      BY Blanks DEF BlankTypes
    <2> HIDE DEF Fits, Behind
    <2> QED
      BY <1>1, <1>2, <1>3, <2>2, <2>3, AsleepStep DEF MarkTypes
  <1>5. CASE ~(fire.sent > 0 /\ ~DefinitionChanged)
    <2>1. UNCHANGED <<now, policy, row, brain, gates, changed, marks, seen>>
      BY <1>5 DEF Abort
    <2>2. events' \in 0..MaxEvents
      BY <1>1, <1>2 DEF MarkTypes
    <2> QED
      BY <1>1, <1>2, <1>3, <2>1, <2>2, LeftAloneStep
  <1> QED
    BY <1>4, <1>5

-----------------------------------------------------------------------------
(* The Brain's answers.                                                    *)

\* The slot at the head of the plan, and what the Brain made of it.
LEMMA HeadSlot ==
    ASSUME IInv, Draining
    PROVE  /\ Slot \in Nat /\ Slot <= fire.at /\ Slot <= now /\ Slot = fire.slots[1]
           /\ fire.slots \in Seq(Nat) /\ fire.slots # <<>> /\ Len(fire.slots) \in Nat \ {0}
  <1>1. /\ fire.slots \in Seq(Nat) /\ fire.slots # <<>>
        /\ \A i \in 1..Len(fire.slots) : fire.slots[i] <= fire.at
        /\ fire.at <= now /\ now \in Nat /\ fire.at \in Nat
    BY Typed DEF IInv, Plans, PlanFits, Claim, Draining, TypedFacts
  <1>2. Len(fire.slots) \in Nat \ {0} /\ Slot = fire.slots[1] /\ fire.slots[1] \in Nat
    BY <1>1 DEF Slot
  <1> QED
    BY <1>1, <1>2

LEMMA CommitGoes ==
    ASSUME IInv, InFlight, Commit
    PROVE  /\ brain' \in Row /\ Goes(brain, brain', now)
           /\ Fits(brain', now) /\ Behind(row, brain') /\ Behind(fire.entry, brain')
           /\ Behind(brain', brain')
  <1>1. Draining /\ pc # "asleep"
    BY DEF InFlight, Draining
  <1>2. /\ now \in Nat /\ row \in Row /\ brain \in Row /\ fire.entry \in Row
        /\ Fits(brain, now) /\ Behind(row, brain) /\ Behind(fire.entry, brain)
    BY <1>1, Typed DEF IInv, Rows, TypedFacts
  <1>3. Slot \in Nat /\ Slot <= now
    BY <1>1, HeadSlot
  <1>4. brain' \in Row /\ Goes(brain, brain', now)
    <2>1. CASE Fresh
      BY <1>2, <1>3, <2>1, MovedRow, MovedGoes DEF Commit
    <2>2. CASE ~Fresh
      BY <1>2, <2>2 DEF Commit, Goes
    <2> QED
      BY <2>1, <2>2
  <1> QED
    BY <1>2, <1>4, RowGoes, BehindGoes

\* An accepted slot: the Brain has moved past it, and one revision past the entry.
LEMMA AcceptedBrain ==
    ASSUME IInv, InFlight, Fresh \/ Replay, Commit
    PROVE  /\ brain'.rev = fire.entry.rev + 1 /\ brain'.last = Slot
           /\ brain'.cad = fire.entry.cad /\ brain'.next = NextAfter(fire.entry.cad, Slot)
           /\ Past(brain', Slot)
  <1>1. Draining /\ pc # "asleep"
    BY DEF InFlight, Draining
  <1>2. /\ brain \in Row /\ fire.entry \in Row /\ Behind(fire.entry, brain)
        /\ fire.entry.rev \in Nat
    BY <1>1, Typed, RowFields DEF IInv, Rows, TypedFacts
  <1>3. Slot \in Nat
    BY <1>1, HeadSlot
  <1>4. /\ brain'.rev = fire.entry.rev + 1 /\ brain'.last = Slot
        /\ brain'.cad = fire.entry.cad /\ brain'.next = NextAfter(fire.entry.cad, Slot)
    <2> HIDE DEF NextAfter
    <2>1. CASE Fresh
      <3>1. brain = fire.entry
        BY <1>2, <2>1 DEF Fresh, Behind
      <3> QED
        BY <1>2, <1>3, <2>1, <3>1, MovedRow DEF Commit
    <2>2. CASE ~Fresh
      <3>1. /\ brain' = brain /\ brain.rev = fire.entry.rev + 1 /\ brain.last = Slot
            /\ fire.entry.last # Slot
        BY <2>2 DEF Commit, Replay
      <3>2. brain.cad = fire.entry.cad /\ brain.next = NextAfter(brain.cad, brain.last)
        BY <1>2, <3>1 DEF Behind
      <3> QED
        BY <3>1, <3>2
    <2> QED
      BY <2>1, <2>2
  <1>5. NextAfter(fire.entry.cad, Slot) = None \/ Slot < NextAfter(fire.entry.cad, Slot)
    BY <1>2, <1>3, NextAfterSlot, RowFields
  <1> QED
    BY <1>4, <1>5 DEF Past

\* The compare-and-set leaves the Brain's row, or one the Brain has left behind.
LEMMA AppliedRow ==
    ASSUME IInv, InFlight, Commit, Apply, Fresh \/ Replay
    PROVE  /\ row' \in Row /\ Fits(row', now) /\ Behind(row', brain')
           /\ changed' \in BOOLEAN
           /\ changed' \/ (row' = row /\ changed' = changed)
           /\ Applied => row' = brain'
  <1>1. /\ brain' \in Row /\ Fits(brain', now) /\ Behind(row, brain') /\ Behind(brain', brain')
    BY CommitGoes
  <1>2. MarkTypes /\ pc # "asleep"
    BY MarksAreTyped DEF InFlight
  <1>3. CASE row.rev = fire.entry.rev
    BY <1>1, <1>3 DEF Apply
  <1>4. CASE row.rev # fire.entry.rev
    <2>1. row' = row /\ changed' = changed
      BY <1>4 DEF Apply
    <2>2. Applied => row = brain'
      BY <1>1, <1>4 DEF Applied, Behind
    <2> QED
      BY <1>1, <1>2, <2>1, <2>2 DEF MarkTypes
  <1> QED
    BY <1>3, <1>4

LEMMA FailsStep == IInv /\ Fails => IInv'
  <1> SUFFICES ASSUME IInv, Fails PROVE IInv'
    OBVIOUS
  <1>1. MarkTypes /\ pc # "asleep" /\ InFlight
    BY MarksAreTyped DEF Fails, InFlight
  <1>2. /\ row' = row /\ changed' = changed /\ parked' = parked
        /\ handoff' = handoff /\ entitled' = entitled /\ seen' = seen /\ now' = now
        /\ policy' = policy /\ leader' = leader /\ healthy' = healthy /\ since' = since
        /\ UNCHANGED <<marks, seen>>
    BY DEF Fails, marks, gates
  <1>3. /\ backoff' \in [count : Nat, until : Int, cad : Cadence]
        /\ backoff'.cad = fire.entry.cad /\ Sleep /\ pc' = "asleep"
    BY BackoffTypes DEF Fails, Sleep
  <1>4. Memory'
    BY <1>1, <1>2, <1>3, MarksKept
  <1>5. changed \/ row.cad = fire.entry.cad
    BY <1>1 DEF IInv, Claim
  <1>6. brain' \in Row /\ Fits(brain', now) /\ Behind(row, brain')
    <2>1. CASE brain' = brain
      BY <1>1, <2>1 DEF MarkTypes
    <2>2. CASE Commit
      BY <1>1, <2>2, CommitGoes
    <2> QED
      BY <2>1, <2>2 DEF Fails
  <1>7. events' \in 0..MaxEvents
    BY CountTypes DEF Fails, IInv
  <1> HIDE DEF Fits, Behind
  <1> QED
    BY <1>1, <1>2, <1>3, <1>4, <1>5, <1>6, <1>7, AsleepStep DEF MarkTypes

LEMMA DisabledRow ==
    ASSUME NEW r \in Row
    PROVE  LET d == [r EXCEPT !.enabled = FALSE] IN
           /\ d \in Row /\ d.last = r.last /\ d.next = r.next /\ d.cad = r.cad /\ d.rev = r.rev
  BY DEF Row

LEMMA RefusedStep == IInv /\ Refused => IInv'
  <1> SUFFICES ASSUME IInv, Refused PROVE IInv'
    OBVIOUS
  <1>1. MarkTypes /\ pc # "asleep"
    BY MarksAreTyped DEF Refused
  <1>2. /\ brain' = brain /\ parked' = parked
        /\ handoff' = handoff /\ entitled' = entitled /\ seen' = seen /\ now' = now
        /\ policy' = policy /\ leader' = leader /\ healthy' = healthy /\ since' = since
        /\ events' = events /\ UNCHANGED <<marks, seen>> /\ Sleep /\ pc' = "asleep"
        /\ backoff' = NoBackoff
    BY DEF Refused, marks, gates, ReturnTrue, Sleep
  <1>3. Memory'
    BY <1>1, <1>2, MarksKept
  <1>4. row' \in Row /\ Fits(row', now) /\ Behind(row', brain)
    <2>1. row \in Row /\ brain \in Row /\ Fits(row, now) /\ Behind(row, brain)
      BY <1>1 DEF MarkTypes
    <2>2. CASE row.rev < brain.rev
      <3>1. /\ row' \in Row /\ row'.last = row.last /\ row'.next = row.next
            /\ row'.cad = row.cad /\ row'.rev = row.rev
        BY <2>1, <2>2, DisabledRow DEF Refused
      <3>2. row.rev \in Nat /\ brain.rev \in Nat
        BY <2>1, RowFields
      <3> HIDE DEF NextAfter
      <3> QED
        BY <2>1, <2>2, <3>1, <3>2 DEF Fits, Behind
    <2>3. CASE ~(row.rev < brain.rev)
      BY <2>1, <2>3 DEF Refused
    <2> QED
      BY <2>2, <2>3
  <1>5. changed' \in BOOLEAN
    <2>1. ASSUME NEW a \in BOOLEAN, NEW b \in BOOLEAN PROVE (a \/ b) \in BOOLEAN
      OBVIOUS
    <2>2. changed \in BOOLEAN /\ (row' # row) \in BOOLEAN
      BY <1>1 DEF MarkTypes
    <2> QED
      BY <2>1, <2>2 DEF Refused
  <1>6. backoff' \in [count : Nat, until : Int, cad : Cadence] /\ backoff'.until = None
    BY <1>2, BackoffTypes
  <1> HIDE DEF Fits, Behind
  <1> QED
    BY <1>1, <1>2, <1>3, <1>4, <1>5, <1>6, AsleepStep DEF MarkTypes

\* An accepted transition ends the iteration, and the marks with it.
LEMMA ConsumedStep ==
    ASSUME IInv, InFlight, Fresh \/ Replay, Commit, Apply,
           (Consume /\ (Applied \/ ~fire.owed)) \/ UNCHANGED marks,
           fire.owed => fire.slots = <<seen.slot>>,
           ReturnTrue, UNCHANGED <<now, policy, gates, seen, events>>
    PROVE  IInv'
  <1>1. MarkTypes /\ pc # "asleep" /\ Draining
    BY MarksAreTyped DEF InFlight, Draining
  <1>2. /\ brain' \in Row /\ Fits(brain', now)
        /\ row' \in Row /\ Fits(row', now) /\ Behind(row', brain')
        /\ changed' \in BOOLEAN
        /\ Applied => row' = brain'
    BY CommitGoes, AppliedRow
  <1>3. Past(brain', Slot) /\ Slot \in Nat /\ Slot <= now
    BY <1>1, AcceptedBrain, HeadSlot
  <1>4. /\ seen' = seen /\ now' = now /\ policy' = policy /\ leader' = leader /\ healthy' = healthy
        /\ since' = since /\ events' = events /\ Sleep /\ pc' = "asleep" /\ backoff' = NoBackoff
    BY DEF gates, ReturnTrue, Sleep
  <1>5. backoff' \in [count : Nat, until : Int, cad : Cadence] /\ backoff'.until = None
    BY <1>4, BackoffTypes
  <1>6. /\ Memory' /\ parked' = None
        /\ handoff' \in [slot : MaybeSlot, cad : Cadence]
        /\ entitled' \in [slot : MaybeSlot, cad : Cadence, at : Moment \cup {None}]
        /\ entitled'.slot = None <=> entitled'.at = None
    <2>1. CASE Consume /\ (Applied \/ ~fire.owed)
      <3>1. fire.owed => Settled(seen.slot)'
        <4> SUFFICES ASSUME fire.owed PROVE Settled(seen.slot)'
          OBVIOUS
        <4>1. Slot = seen.slot
          <5>1. Slot = fire.slots[1]
            BY <1>1, HeadSlot
          <5> QED
            BY <5>1
        <4>2. seen.slot # None /\ seen.slot <= now /\ Past(brain', seen.slot)
          BY <1>3, <4>1, Constants
        <4>3. row' = brain'
          BY <1>2, <2>1
        <4> QED
          BY <1>4, <4>2, <4>3 DEF Settled
      <3> QED
        BY <1>1, <1>4, <2>1, <3>1, MarksConsumed
    <2>2. CASE UNCHANGED marks
      <3>1. UNCHANGED <<marks, seen>>
        BY <1>4, <2>2
      <3>2. Memory'
        BY <1>1, <1>4, <3>1, MarksKept
      <3>3. parked' = parked /\ handoff' = handoff /\ entitled' = entitled
        BY <3>1 DEF marks
      <3> QED
        BY <1>1, <3>2, <3>3 DEF MarkTypes
    <2> QED
      BY <2>1, <2>2
  <1>7. None \in MaybeSlot
    BY Blanks DEF BlankTypes
  <1>8. /\ changed' \/ backoff'.until = None \/ backoff'.cad = row'.cad
        /\ parked' \in MaybeSlot
        /\ parked' # None => ~leader
        /\ events' \in 0..MaxEvents /\ seen' \in SeenTypes
    BY <1>1, <1>4, <1>5, <1>6, <1>7 DEF MarkTypes
  <1> HIDE DEF Fits, Behind
  <1>9. UNCHANGED <<now, policy, leader, healthy, since>>
    BY <1>4
  <1> QED
    BY <1>1, <1>2, <1>4, <1>5, <1>6, <1>8, <1>9, AsleepStep

LEMMA CursorAdvancedStep == IInv /\ CursorAdvanced => IInv'
  <1> SUFFICES ASSUME IInv, CursorAdvanced PROVE IInv'
    OBVIOUS
  <1>1. InFlight /\ ~fire.owed
    BY DEF CursorAdvanced, InFlight, IInv, Plans, Draining, PlanFits
  <1>2. /\ Fresh \/ Replay
        /\ Commit /\ Apply /\ Consume /\ ReturnTrue
        /\ UNCHANGED <<now, policy, gates, seen, events>>
    BY DEF CursorAdvanced
  <1> QED
    BY <1>1, <1>2, ConsumedStep

-----------------------------------------------------------------------------
(* The drain goes on.                                                      *)

LEMMA SentFire ==
    ASSUME NEW f \in Fire, NEW t \in Moment
    PROVE  LET g == [f EXCEPT !.from = t] IN
           /\ g \in Fire /\ g.entry = f.entry /\ g.at = f.at /\ g.slots = f.slots /\ g.sent = f.sent
           /\ g.handoff = f.handoff /\ g.owed = f.owed
  BY DEF Fire

LEMMA SendStep == IInv /\ Send => IInv'
  <1> SUFFICES ASSUME IInv, Send PROVE IInv'
    OBVIOUS
  <1>1. TypeOK /\ Draining /\ pc # "asleep" /\ now \in Moment
    BY DEF IInv, TypeOK, Send, Draining
  <1>2. /\ row' = row /\ brain' = brain /\ changed' = changed /\ parked' = parked
        /\ handoff' = handoff /\ entitled' = entitled /\ seen' = seen /\ now' = now
        /\ policy' = policy /\ leader' = leader /\ healthy' = healthy /\ since' = since
        /\ events' = events /\ nap' = nap /\ backoff' = backoff /\ pc' = "firing"
    BY DEF Send, marks, gates
  <1>3. /\ fire' \in Fire /\ fire'.entry = fire.entry /\ fire'.at = fire.at
        /\ fire'.slots = fire.slots /\ fire'.sent = fire.sent
        /\ fire'.handoff = fire.handoff /\ fire'.owed = fire.owed
    BY <1>1, SentFire DEF Send, TypeOK
  <1>4. TypeOK'
    BY <1>1, <1>2, <1>3 DEF TypeOK
  <1>5. Rows' /\ Claim' /\ Naps'
    BY <1>1, <1>2, <1>3 DEF IInv, Rows, Claim, Naps
  <1>6. Clock' = Clock /\ (Lapsed' <=> Lapsed) /\ (HandoffKept' <=> HandoffKept) /\ (Held' <=> Held)
    BY <1>1, <1>2, <1>3 DEF Clock, Lapsed, HandoffKept, Held
  <1>7. Memory'
    BY <1>1, <1>2, <1>6 DEF IInv, Memory, Over
  <1>8. Plans'
    <2>1. PlanFits /\ CatchUpIsOnePass /\ LateFireIsOwed /\ pc = "planned"
      BY <1>1 DEF IInv, Plans, Send
    <2>2. Slot' = Slot /\ (Consecutive' <=> Consecutive) /\ (OnGrid(fire.entry)' <=> OnGrid(fire.entry))
      BY <1>3 DEF Slot, Consecutive, OnGrid
    <2>3. PlanFits'
      BY <1>2, <1>3, <1>6, <2>1, <2>2 DEF PlanFits
    <2>4. CatchUpIsOnePass' /\ LateFireIsOwed'
      BY <1>2, <1>3, <2>1, <2>2 DEF CatchUpIsOnePass, CatchUp, LateFireIsOwed
    <2> QED
      BY <2>3, <2>4 DEF Plans
  <1> QED
    BY <1>4, <1>5, <1>7, <1>8 DEF IInv

LEMMA DrainedFire ==
    ASSUME NEW f \in Fire, NEW r \in Row, f.slots # <<>>
    PROVE  LET g == [f EXCEPT !.slots = Tail(@), !.sent = @ + 1, !.entry = r] IN
           /\ g \in Fire /\ g.entry = r /\ g.at = f.at /\ g.slots = Tail(f.slots)
           /\ g.sent = f.sent + 1 /\ g.handoff = f.handoff /\ g.owed = f.owed
  <1>1. Tail(f.slots) \in Seq(Nat) /\ f.sent + 1 \in Nat
    BY DEF Fire
  <1> QED
    BY <1>1 DEF Fire

LEMMA Tails ==
    ASSUME NEW s \in Seq(Nat), Len(s) > 1
    PROVE  /\ Tail(s) \in Seq(Nat) /\ Tail(s) # <<>> /\ Len(Tail(s)) = Len(s) - 1
           /\ \A i \in 1..Len(Tail(s)) : Tail(s)[i] = s[i + 1]
           /\ Head(Tail(s)) = s[2]
  <1>1. Len(s) \in Nat /\ s # <<>>
    OBVIOUS
  <1> DEFINE t == Tail(s)
  <1>2. /\ t \in Seq(Nat) /\ Len(t) = Len(s) - 1
        /\ \A i \in 1..Len(t) : t[i] = s[i + 1]
    BY <1>1, HeadTailProperties
  <1> HIDE DEF t
  <1>3. Len(t) # 0 /\ 1 \in 1..Len(t)
    BY <1>1, <1>2
  <1>4. t # <<>>
    <2>1. ASSUME NEW u \in Seq(Nat), Len(u) # 0 PROVE u # <<>>
      BY <2>1
    <2> QED
      BY <1>2, <1>3, <2>1
  <1>5. Head(t) = t[1]
    BY <1>2, <1>4
  <1> QED
    BY <1>2, <1>3, <1>4, <1>5 DEF t

\* The next slot of a drain: the entry is the row the Brain answered with, or a
\* definition that the Brain has left behind.
DrainGoesOn ==
    /\ pc' = "planned"
    /\ fire' = [fire EXCEPT !.slots = Tail(@), !.sent = @ + 1,
                            !.entry = IF row.rev = @.rev THEN row' ELSE @]
    /\ UNCHANGED <<nap, marks, backoff>>

LEMMA DrainStep ==
    ASSUME IInv, InFlight, Fresh \/ Replay, Commit, Apply, Len(fire.slots) > 1,
           DrainGoesOn, UNCHANGED <<now, policy, gates, seen, events>>
    PROVE  IInv'
  <1> DEFINE e == IF row.rev = fire.entry.rev THEN row' ELSE fire.entry
  <1>1. TypeOK /\ TypedFacts /\ Draining /\ pc # "asleep"
    BY Typed DEF IInv, InFlight, Draining
  <1>2. /\ parked' = parked /\ handoff' = handoff /\ entitled' = entitled /\ seen' = seen
        /\ now' = now /\ policy' = policy /\ leader' = leader /\ healthy' = healthy
        /\ since' = since /\ events' = events /\ nap' = nap /\ backoff' = backoff /\ pc' = "planned"
    BY DEF DrainGoesOn, marks, gates
  <1>3. /\ brain' \in Row /\ Fits(brain', now) /\ Behind(brain', brain') /\ Behind(fire.entry, brain')
        /\ row' \in Row /\ Fits(row', now) /\ Behind(row', brain') /\ changed' \in BOOLEAN
        /\ changed' \/ (row' = row /\ changed' = changed)
    BY CommitGoes, AppliedRow
  <1>4. /\ brain'.rev = fire.entry.rev + 1
        /\ brain'.cad = fire.entry.cad /\ brain'.next = NextAfter(fire.entry.cad, Slot)
    BY AcceptedBrain
  <1>5. /\ PlanFits /\ policy = "fire_all_missed" /\ ~fire.owed
        /\ fire.slots \in Seq(Nat) /\ Slot = fire.slots[1] /\ Slot \in Nat
    <2>1. PlanFits
      BY <1>1 DEF IInv, Plans
    <2>2. fire.slots \in Seq(Nat) /\ Slot = fire.slots[1] /\ Slot \in Nat
      BY <1>1, HeadSlot
    <2>3. ~fire.owed
      <3>1. ASSUME fire.owed PROVE FALSE
        <4>1. fire.slots = <<fire.entry.next>>
          BY <2>1, <3>1 DEF PlanFits
        <4>2. Len(fire.slots) = 1
          BY <4>1
        <4> QED
          BY <4>2
      <3> QED
        BY <3>1
    <2>4. policy = "fire_all_missed"
      <3>1. policy # "fire_all_missed" => Len(fire.slots) = 1
        BY <2>1 DEF PlanFits
      <3>2. ASSUME Len(fire.slots) = 1 PROVE FALSE
        BY <3>2
      <3> QED
        BY <3>1, <3>2
    <2> QED
      BY <2>1, <2>2, <2>3, <2>4
  <1>6. /\ e \in Row /\ Fits(e, now) /\ Behind(e, brain') /\ e.cad = fire.entry.cad
        /\ e = brain' \/ e = fire.entry
        /\ changed' \/ row'.cad = e.cad
    <2>1. fire.entry \in Row /\ Fits(fire.entry, now)
      BY <1>1 DEF IInv, Rows, TypedFacts
    <2>2. CASE row.rev = fire.entry.rev
      <3>1. row' = brain' /\ changed' = TRUE /\ e = brain'
        BY <2>2 DEF Apply
      <3> QED
        BY <1>3, <1>4, <3>1
    <2>3. CASE row.rev # fire.entry.rev
      <3>1. e = fire.entry /\ row' = row /\ changed' = changed
        BY <2>3 DEF Apply
      <3>2. changed \/ row.cad = fire.entry.cad
        BY <1>1 DEF IInv, Claim
      <3> QED
        BY <1>3, <2>1, <3>1, <3>2
    <2> QED
      BY <2>2, <2>3
  <1>7. /\ fire' \in Fire /\ fire'.entry = e /\ fire'.at = fire.at
        /\ fire'.slots = Tail(fire.slots) /\ fire'.sent = fire.sent + 1
        /\ fire'.handoff = fire.handoff /\ fire'.owed = fire.owed
    <2>1. fire \in Fire /\ fire.slots # <<>>
      BY <1>1, <1>5 DEF TypeOK, PlanFits
    <2>2. fire' = [fire EXCEPT !.slots = Tail(@), !.sent = @ + 1, !.entry = e]
      BY DEF DrainGoesOn
    <2> HIDE DEF e
    <2> QED
      BY <1>6, <2>1, <2>2, DrainedFire
  <1> HIDE DEF e
  <1>8. TypeOK'
    BY <1>1, <1>2, <1>3, <1>7 DEF TypeOK
  <1>9. Rows'
    BY <1>2, <1>3, <1>6, <1>7 DEF Rows
  <1>10. Claim'
    <2>1. fire'.sent # 0
      BY <1>1, <1>7 DEF TypedFacts
    <2> QED
      BY <1>1, <1>2, <1>6, <1>7, <2>1 DEF IInv, Claim
  <1>11. Clock' = Clock /\ (Lapsed' <=> Lapsed) /\ (HandoffKept' <=> HandoffKept) /\ (Held' <=> Held)
    BY <1>1, <1>2, <1>7 DEF Clock, Lapsed, HandoffKept, Held
  <1>12. Memory'
    BY <1>1, <1>2, <1>11 DEF IInv, Memory, Over
  <1>13. /\ Tail(fire.slots) # <<>> /\ Len(Tail(fire.slots)) = Len(fire.slots) - 1
         /\ \A i \in 1..Len(Tail(fire.slots)) : Tail(fire.slots)[i] = fire.slots[i + 1]
         /\ Slot' = fire.slots[2] /\ Len(fire.slots) \in Nat
    <2>1. /\ Tail(fire.slots) # <<>> /\ Len(Tail(fire.slots)) = Len(fire.slots) - 1
          /\ \A i \in 1..Len(Tail(fire.slots)) : Tail(fire.slots)[i] = fire.slots[i + 1]
          /\ Head(Tail(fire.slots)) = fire.slots[2]
      BY <1>5, Tails
    <2>2. Slot' = Head(Tail(fire.slots))
      BY <1>7 DEF Slot
    <2>3. Len(fire.slots) \in Nat
      BY <1>5
    <2> QED
      BY <2>1, <2>2, <2>3
  <1>14. PlanFits'
    <2>0. \A i \in 1..(Len(fire.slots) - 1) :
             Follows(fire.entry.cad, fire.slots[i], fire.slots[i + 1], fire.at)
      BY <1>5 DEF PlanFits, Consecutive
    <2>1. Consecutive'
      <3>1. \A i \in 1..(Len(Tail(fire.slots)) - 1) :
               Follows(fire.entry.cad, Tail(fire.slots)[i], Tail(fire.slots)[i + 1], fire.at)
        <4> TAKE i \in 1..(Len(Tail(fire.slots)) - 1)
        <4>1. i + 1 \in 1..(Len(fire.slots) - 1)
          BY <1>13
        <4>2. i \in 1..Len(Tail(fire.slots)) /\ i + 1 \in 1..Len(Tail(fire.slots))
          BY <1>13
        <4> QED
          BY <1>13, <2>0, <4>1, <4>2
      <3> QED
        BY <1>6, <1>7, <3>1 DEF Consecutive
    <2>2. fire'.entry.rev = brain'.rev =>
             Slot' = fire'.entry.next \/ AmongNewest(fire'.entry.cad, Slot', fire'.at)
      <3>1. fire'.entry.rev = brain'.rev => fire'.entry = brain'
        BY <1>6, <1>7 DEF Behind
      <3>2. 1 \in 1..(Len(fire.slots) - 1) /\ 1 + 1 = 2
        BY <1>13
      <3>3. Follows(fire.entry.cad, fire.slots[1], fire.slots[2], fire.at)
        BY <2>0, <3>2
      <3> HIDE DEF NextAfter, AmongNewest
      <3> QED
        BY <1>4, <1>5, <1>6, <1>7, <1>13, <3>1, <3>3 DEF Follows
    <2>3. \A i \in 1..Len(fire'.slots) : fire'.slots[i] <= fire'.at
      <3>1. \A i \in 1..Len(fire.slots) : fire.slots[i] <= fire.at
        BY <1>5 DEF PlanFits
      <3>2. \A i \in 1..Len(Tail(fire.slots)) : Tail(fire.slots)[i] <= fire.at
        BY <1>13, <3>1
      <3> QED
        BY <1>7, <3>2
    <2>4. Lapsed' /\ (fire'.handoff => fire'.at - seen'.slot > PromotionGrace)
      BY <1>2, <1>5, <1>7, <1>11 DEF PlanFits
    <2> QED
      BY <1>2, <1>5, <1>7, <1>13, <2>1, <2>2, <2>3, <2>4 DEF PlanFits
  <1>15. CatchUpIsOnePass' /\ LateFireIsOwed'
    BY <1>2, <1>5 DEF CatchUpIsOnePass, LateFireIsOwed
  <1>16. Plans' /\ Naps'
    BY <1>2, <1>14, <1>15 DEF Plans, Naps
  <1> QED
    BY <1>8, <1>9, <1>10, <1>12, <1>16 DEF IInv

LEMMA AcceptedStep == IInv /\ Accepted => IInv'
  <1> SUFFICES ASSUME IInv, Accepted PROVE IInv'
    OBVIOUS
  <1>1. /\ InFlight /\ (Fresh \/ Replay) /\ Commit /\ Apply
        /\ UNCHANGED <<now, policy, gates, seen, events>>
    BY DEF Accepted, InFlight
  <1>2. CASE Applied /\ Len(fire.slots) > 1
    <2>1. DrainGoesOn
      BY <1>2 DEF Accepted, DrainGoesOn
    <2> QED
      BY <1>1, <1>2, <2>1, DrainStep
  <1>3. CASE ~(Applied /\ Len(fire.slots) > 1)
    <2>1. (IF Applied THEN Consume ELSE UNCHANGED marks) /\ ReturnTrue
      BY <1>3 DEF Accepted
    <2>2. fire.owed => fire.slots = <<seen.slot>>
      BY DEF IInv, Plans, PlanFits, Claim, Draining, Accepted
    <2>3. (Consume /\ (Applied \/ ~fire.owed)) \/ UNCHANGED marks
      BY <2>1
    <2> QED
      BY <1>1, <2>1, <2>2, <2>3, ConsumedStep
  <1> QED
    BY <1>2, <1>3

-----------------------------------------------------------------------------
(* The decision.                                                           *)

LEMMA AttemptSeen ==
    ASSUME seen \in SeenTypes, NEW c \in Cadence, NEW t \in Moment
    PROVE  LET s == [seen EXCEPT !.onTime = @ \cup {<<c, t>>}] IN
           /\ s \in SeenTypes /\ s.slot = seen.slot /\ s.cad = seen.cad
           /\ s.onTime = seen.onTime \cup {<<c, t>>}
           /\ s.followed = seen.followed /\ s.redefined = seen.redefined
  BY DEF SeenTypes

Decided(f, s, h, o) == [f EXCEPT !.slots = s, !.handoff = h, !.owed = o]
Anchored(f, s, t) == [f EXCEPT !.slots = s, !.from = t]

LEMMA DecidedFire ==
    ASSUME NEW f \in Fire, NEW s \in Seq(Nat), NEW h \in BOOLEAN, NEW o \in BOOLEAN
    PROVE  /\ Decided(f, s, h, o) \in Fire
           /\ Decided(f, s, h, o).entry = f.entry /\ Decided(f, s, h, o).at = f.at
           /\ Decided(f, s, h, o).sent = f.sent /\ Decided(f, s, h, o).slots = s
           /\ Decided(f, s, h, o).handoff = h /\ Decided(f, s, h, o).owed = o
  BY DEF Fire, Decided

LEMMA AnchoredFire ==
    ASSUME NEW f \in Fire, NEW s \in Seq(Nat), NEW t \in Moment
    PROVE  /\ Anchored(f, s, t) \in Fire
           /\ Anchored(f, s, t).entry = f.entry /\ Anchored(f, s, t).at = f.at
           /\ Anchored(f, s, t).sent = f.sent /\ Anchored(f, s, t).slots = s
           /\ Anchored(f, s, t).handoff = f.handoff /\ Anchored(f, s, t).owed = f.owed
  BY DEF Fire, Anchored

\* The plan for a due entry: its own slot if it is owed, else what the policy makes of
\* the slots it missed.
LEMMA PlanIs ==
    ASSUME fire.entry \in Row, fire.at \in Nat, fire.entry.next \in 0..fire.at,
           Fits(fire.entry, fire.at),
           policy \in {"skip", "fire_one_missed", "fire_all_missed"}
    PROVE  LET e == fire.entry
               anchor == Latest(MissedSlots(e, fire.at))
           IN  /\ Plan \in Seq(Nat)
               /\ \A k \in 1..Len(Plan) : Plan[k] <= fire.at
               /\ \A k \in 1..(Len(Plan) - 1) : Follows(e.cad, Plan[k], Plan[k + 1], fire.at)
               /\ Owed \/ e.cad = Once => Plan = <<e.next>>
               /\ policy # "fire_all_missed" => Plan = <<>> \/ Len(Plan) = 1
               /\ policy = "fire_all_missed" =>
                     /\ Plan # <<>>
                     /\ OnGrid(e) => Plan[1] = e.next \/ AmongNewest(e.cad, Plan[1], fire.at)
               /\ policy = "skip" /\ ~Owed /\ e.cad # Once => Plan = <<>>
               /\ Plan = <<>> => policy = "skip" /\ ~Owed /\ e.cad # Once
               /\ ~Owed /\ e.cad # Once =>
                     /\ anchor \in Nat /\ anchor <= fire.at /\ NextAfter(e.cad, anchor) > fire.at
                     /\ policy = "fire_one_missed" => Plan = <<anchor>>
  <1> DEFINE e == fire.entry
             missed == MissedSlots(e, fire.at)
  <1>1. e.next \in Nat /\ e.next <= fire.at
    BY Constants
  <1>2. CASE Owed \/ e.cad = Once
    <2>1. Plan = <<e.next>>
      BY <1>2 DEF Plan
    <2>2. Plan \in Seq(Nat) /\ Len(Plan) = 1 /\ Plan[1] = e.next /\ Plan # <<>>
      BY <1>1, <2>1
    <2> HIDE DEF Plan, Owed, NextAfter, OnGrid, MissedSlots, Latest
    <2> QED
      BY <1>1, <1>2, <2>1, <2>2
  <1>3. CASE ~Owed /\ e.cad # Once
    <2>1. /\ missed \in Seq(Nat) /\ missed # <<>>
          /\ \A k \in 1..Len(missed) : missed[k] <= fire.at
          /\ \A k \in 1..(Len(missed) - 1) : Follows(e.cad, missed[k], missed[k + 1], fire.at)
          /\ OnGrid(e) => missed[1] = e.next \/ AmongNewest(e.cad, missed[1], fire.at)
          /\ Latest(missed) \in Nat /\ Latest(missed) <= fire.at
          /\ NextAfter(e.cad, Latest(missed)) > fire.at
      BY <1>3, Missed
    <2> HIDE DEF NextAfter, OnGrid, missed, Latest, Owed
    <2>2. Plan = PlanCatchUp(missed)
      BY <1>3 DEF Plan, missed
    <2>3. CASE policy = "skip"
      <3>1. Plan = <<>>
        BY <2>2, <2>3 DEF PlanCatchUp
      <3>2. Plan \in Seq(Nat) /\ Len(Plan) = 0
        BY <3>1
      <3> HIDE DEF Plan
      <3> QED
        BY <1>3, <2>1, <2>3, <3>1, <3>2 DEF missed
    <2>4. CASE policy = "fire_one_missed"
      <3>1. Plan = <<Latest(missed)>>
        BY <2>2, <2>4 DEF PlanCatchUp
      <3>2. Plan \in Seq(Nat) /\ Len(Plan) = 1 /\ Plan[1] = Latest(missed) /\ Plan # <<>>
        BY <2>1, <3>1
      <3> HIDE DEF Plan
      <3> QED
        BY <1>3, <2>1, <2>4, <3>1, <3>2 DEF missed
    <2>5. CASE policy = "fire_all_missed"
      <3>1. Plan = missed
        BY <2>2, <2>5 DEF PlanCatchUp
      <3> HIDE DEF Plan
      <3> QED
        BY <1>3, <2>1, <2>5, <3>1 DEF missed
    <2> QED
      BY <2>3, <2>4, <2>5
  <1> QED
    BY <1>2, <1>3

\* What the engine holds of a slot it is about to decide on, and what becomes of it.
LEMMA DecideMarks ==
    ASSUME IInv, Decide
    PROVE  /\ Lateness = fire.at - seen.slot /\ Lateness \in Int
           /\ seen' \in SeenTypes /\ seen'.slot = seen.slot /\ seen'.cad = seen.cad
           /\ seen'.followed = seen.followed /\ seen'.redefined = seen.redefined
           /\ seen.onTime \subseteq seen'.onTime
           /\ OnTime => <<fire.entry.cad, fire.at>> \in seen'.onTime
           /\ ~OnTime => seen' = seen /\ (Lapsed \/ PriorGrant)
           /\ WasHandoff /\ ~OnTime => Lateness > PromotionGrace
           /\ PriorGrant => /\ entitled.slot # None /\ entitled.at \in Moment /\ entitled.at <= fire.at
                            /\ <<fire.entry.cad, entitled.at>> \in seen.onTime
  <1>1. /\ TypedFacts /\ MarkTypes /\ pc = "claimed"
        /\ seen.slot = fire.entry.next /\ seen.cad = fire.entry.cad
        /\ fire.entry.next \in 0..fire.at /\ fire.at <= now
        /\ entitled.slot # None => entitled.at <= fire.at
    BY Typed, MarksAreTyped DEF Decide, IInv, Claim
  <1>2. /\ fire.entry.next \in Nat /\ fire.entry.next # None /\ fire.at \in Nat /\ fire.at \in Moment
        /\ fire.entry.cad \in Cadence /\ seen \in SeenTypes
    BY <1>1, Constants, RowFields DEF TypedFacts, MarkTypes
  <1>3. Lateness = fire.at - seen.slot /\ Lateness \in Int
    BY <1>1, <1>2 DEF Lateness
  <1>4. /\ Lapsed \/ Held
        /\ HandoffKept /\ Clock = fire.at
        /\ handoff.slot # None => seen.followed
        /\ entitled.slot # None => /\ seen.slot = entitled.slot
                                   /\ <<entitled.cad, entitled.at>> \in seen.onTime
    BY <1>1 DEF IInv, Memory, Over, Clock
  <1>5. WasHandoff <=> handoff.slot = seen.slot /\ handoff.cad = seen.cad
    <2>1. handoff \in [slot : MaybeSlot, cad : Cadence]
      BY <1>1 DEF MarkTypes
    <2> QED
      BY <1>1, <2>1 DEF WasHandoff
  <1> DEFINE grace == IF seen.followed THEN PromotionGrace ELSE Grace
  <1>6. /\ grace \in Nat /\ EffectiveGrace \in Nat
        /\ WasHandoff => EffectiveGrace = PromotionGrace /\ grace = PromotionGrace
        /\ ~WasHandoff => EffectiveGrace = Grace /\ EffectiveGrace <= grace
    BY <1>1, <1>2, <1>4, <1>5, Constants DEF EffectiveGrace
  <1>7. EffectiveGrace <= grace
    BY <1>6, Constants
  <1> HIDE DEF PromotionGrace
  <1>8. seen' = IF Lateness <= grace
                THEN [seen EXCEPT !.onTime = @ \cup {<<fire.entry.cad, fire.at>>}] ELSE seen
    BY DEF Decide, SeenOnTime
  <1>9. OnTime => Lateness <= grace
    BY <1>3, <1>6, <1>7 DEF OnTime
  <1>10. ~OnTime => ~(Lateness <= grace)
    <2> SUFFICES ASSUME ~OnTime, Lateness <= grace PROVE FALSE
      OBVIOUS
    <2>1. Lateness > EffectiveGrace
      BY <1>3, <1>6 DEF OnTime
    <2>2. CASE WasHandoff
      BY <1>3, <1>6, <2>1, <2>2
    <2>3. CASE ~WasHandoff /\ ~seen.followed
      BY <1>3, <1>6, <2>1, <2>3
    <2>4. CASE ~WasHandoff /\ seen.followed
      BY <1>3, <1>4, <1>5, <1>6, <2>4, Constants DEF HandoffKept
    <2> QED
      BY <2>2, <2>3, <2>4
  <1> HIDE DEF grace
  <1>11. /\ seen' \in SeenTypes /\ seen'.slot = seen.slot /\ seen'.cad = seen.cad
         /\ seen'.followed = seen.followed /\ seen'.redefined = seen.redefined
         /\ seen.onTime \subseteq seen'.onTime
         /\ Lateness <= grace => <<fire.entry.cad, fire.at>> \in seen'.onTime
    <2>1. CASE Lateness <= grace
      <3>1. seen' = [seen EXCEPT !.onTime = @ \cup {<<fire.entry.cad, fire.at>>}]
        BY <1>8, <2>1
      <3> QED
        BY <1>2, <3>1, AttemptSeen
    <2>2. CASE ~(Lateness <= grace)
      BY <1>2, <1>8, <2>2
    <2> QED
      BY <2>1, <2>2
  <1>12. WasHandoff /\ ~OnTime => Lateness > PromotionGrace
    BY <1>3, <1>6 DEF OnTime
  <1>13. PriorGrant => /\ entitled.slot # None /\ entitled.at \in Moment /\ entitled.at <= fire.at
                       /\ <<fire.entry.cad, entitled.at>> \in seen.onTime
    <2>1. entitled.slot # None => entitled.at \in Moment
      BY <1>1 DEF MarkTypes
    <2> QED
      BY <1>1, <1>2, <1>4, <2>1 DEF PriorGrant
  <1>14. Held => PriorGrant
    BY <1>1 DEF Held, PriorGrant
  <1> QED
    BY <1>3, <1>4, <1>8, <1>9, <1>10, <1>11, <1>12, <1>13, <1>14

\* What becomes of the marks is true of the slot, whichever way it was decided.
LEMMA DecideMemory ==
    ASSUME IInv, Decide, fire'.at = fire.at, pc' # "asleep"
    PROVE  /\ Memory'
           /\ ~Owed => Lapsed'
           /\ entitled' \in [slot : MaybeSlot, cad : Cadence, at : Moment \cup {None}]
           /\ entitled'.slot = None <=> entitled'.at = None
           /\ entitled'.slot # None => entitled'.at <= fire.at
  <1>1. /\ TypedFacts /\ MarkTypes /\ pc = "claimed" /\ now' = now /\ handoff' = handoff
        /\ seen.slot = fire.entry.next /\ seen.cad = fire.entry.cad
        /\ fire.entry.next \in 0..fire.at /\ fire.at <= now
        /\ entitled.slot # None => entitled.at <= fire.at
    BY Typed, MarksAreTyped DEF Decide, IInv, Claim
  <1>2. /\ fire.entry.next \in MaybeSlot /\ fire.entry.next # None /\ fire.at \in Nat /\ fire.at # None
        /\ fire.entry.cad \in Cadence /\ now \in Nat /\ fire.at \in Moment
    BY <1>1, Constants, RowFields DEF TypedFacts
  <1>3. Clock = fire.at /\ Clock' = fire.at
    BY <1>1 DEF Clock
  <1>4. /\ Lapsed \/ Held
        /\ HandoffKept
        /\ handoff.slot # None => /\ seen.slot = handoff.slot /\ seen.cad = handoff.cad
                                  /\ seen.followed
        /\ entitled.slot # None => /\ seen.slot = entitled.slot /\ entitled.at <= now
                                   /\ <<entitled.cad, entitled.at>> \in seen.onTime
    BY <1>1 DEF IInv, Memory, Over
  <1>5. /\ seen'.slot = seen.slot /\ seen'.cad = seen.cad
        /\ seen'.followed = seen.followed /\ seen'.redefined = seen.redefined
        /\ seen.onTime \subseteq seen'.onTime
        /\ OnTime => <<fire.entry.cad, fire.at>> \in seen'.onTime
        /\ ~OnTime => seen' = seen /\ (Lapsed \/ PriorGrant)
        /\ PriorGrant => /\ entitled.slot # None /\ entitled.at \in Moment /\ entitled.at <= fire.at
                         /\ <<fire.entry.cad, entitled.at>> \in seen.onTime
    BY DecideMarks
  <1>6. HandoffKept'
    BY <1>1, <1>3, <1>4, <1>5 DEF HandoffKept
  <1>7. CASE OnTime
    <2>1. entitled' = [slot |-> fire.entry.next, cad |-> fire.entry.cad, at |-> GrantedAt]
      BY <1>7 DEF Decide
    <2>2. /\ GrantedAt \in Moment /\ GrantedAt # None /\ GrantedAt <= fire.at
          /\ <<fire.entry.cad, GrantedAt>> \in seen'.onTime
      <3>1. CASE PriorGrant
        <4>1. GrantedAt = entitled.at
          BY <3>1 DEF GrantedAt
        <4> QED
          BY <1>1, <1>5, <3>1, <4>1, Constants
      <3>2. CASE ~PriorGrant
        <4>1. GrantedAt = fire.at
          BY <3>2 DEF GrantedAt
        <4> QED
          BY <1>2, <1>5, <1>7, <4>1
      <3> QED
        BY <3>1, <3>2
    <2>3. GrantedAt <= now
      BY <1>1, <1>2, <2>2, Constants
    <2> HIDE DEF GrantedAt
    <2>4. /\ entitled'.slot = fire.entry.next /\ entitled'.cad = fire.entry.cad /\ entitled'.at = GrantedAt
          /\ entitled' \in [slot : MaybeSlot, cad : Cadence, at : Moment \cup {None}]
      BY <1>2, <2>1, <2>2
    <2>5. Held'
      BY <1>1, <1>2, <1>5, <2>4 DEF Held
    <2>6. Memory'
      BY <1>1, <1>4, <1>5, <1>6, <2>2, <2>3, <2>4, <2>5 DEF Memory
    <2>7. Owed
      BY <1>7 DEF Owed
    <2> QED
      BY <1>2, <2>2, <2>4, <2>6, <2>7
  <1>8. CASE ~OnTime
    <2>1. entitled' = entitled /\ seen' = seen
      BY <1>5, <1>8 DEF Decide
    <2>2. Lapsed => Lapsed'
      BY <1>3, <2>1 DEF Lapsed
    <2>3. Held => Held'
      BY <2>1 DEF Held
    <2>4. Memory'
      BY <1>1, <1>4, <1>6, <2>1, <2>2, <2>3 DEF Memory
    <2>5. ASSUME ~Owed, PriorGrant PROVE Lapsed'
      <3>1. entitled.at \in Int /\ fire.at - entitled.at > EntitlementAge
        BY <1>1, <1>2, <2>5, Constants DEF Owed, TypedFacts
      <3>2. <<fire.entry.cad, entitled.at>> \in seen'.onTime
        BY <1>5, <2>1, <2>5
      <3> QED
        BY <1>3, <3>1, <3>2 DEF Lapsed
    <2> QED
      BY <1>1, <1>5, <1>8, <2>1, <2>2, <2>4, <2>5 DEF MarkTypes
  <1> QED
    BY <1>7, <1>8

\* The fire that was decided on.
LEMMA DecidedIs ==
    ASSUME IInv, Decide
    PROVE  /\ fire' \in Fire /\ fire'.entry = fire.entry /\ fire'.at = fire.at /\ fire'.sent = 0
           /\ fire'.handoff = WasHandoff /\ fire'.owed = Owed
           /\ Plan # <<>> => pc' = "planned" /\ fire'.slots = Plan
           /\ Plan = <<>> =>
                 /\ pc' = "skipping" /\ policy = "skip" /\ ~Owed /\ fire.entry.cad # Once
                 /\ fire'.slots = <<Latest(MissedSlots(fire.entry, fire.at))>>
  <1> DEFINE anchor == Latest(MissedSlots(fire.entry, fire.at))
             planned == Decided(fire, Plan, WasHandoff, Owed)
  <1>1. /\ fire \in Fire /\ fire.entry \in Row /\ fire.at \in Nat /\ fire.sent = 0
        /\ fire.entry.next \in 0..fire.at /\ Fits(fire.entry, now) /\ now \in Moment
        /\ policy \in {"skip", "fire_one_missed", "fire_all_missed"}
    BY Typed DEF Decide, IInv, Claim, Rows, TypeOK, TypedFacts
  <1>2. Fits(fire.entry, fire.at)
    <2>1. /\ fire.entry.last \in Int /\ fire.entry.next \in Int /\ fire.entry.next # None
          /\ fire.entry.next <= fire.at
      BY <1>1, RowFields, Constants
    <2> QED
      BY <1>1, <2>1 DEF Fits
  <1>3. Plan \in Seq(Nat) /\ (Plan = <<>> => policy = "skip" /\ ~Owed /\ fire.entry.cad # Once /\ anchor \in Nat)
    BY <1>1, <1>2, PlanIs
  <1>4. WasHandoff \in BOOLEAN /\ Owed \in BOOLEAN
    BY DEF WasHandoff, Owed
  <1>5. /\ Plan # <<>> => pc' = "planned" /\ fire' = planned
        /\ Plan = <<>> => pc' = "skipping" /\ fire' = Anchored(planned, <<anchor>>, now)
    BY DEF Decide, Decided, Anchored
  <1> HIDE DEF Plan, WasHandoff, Owed, anchor
  <1>6. /\ planned \in Fire /\ planned.entry = fire.entry /\ planned.at = fire.at
        /\ planned.sent = fire.sent /\ planned.slots = Plan
        /\ planned.handoff = WasHandoff /\ planned.owed = Owed
    BY <1>1, <1>3, <1>4, DecidedFire
  <1> HIDE DEF planned
  <1>7. CASE Plan # <<>>
    BY <1>1, <1>5, <1>6, <1>7
  <1>8. CASE Plan = <<>>
    <2>1. <<anchor>> \in Seq(Nat)
      BY <1>3, <1>8
    <2>2. fire' = Anchored(planned, <<anchor>>, now) /\ planned \in Fire
      BY <1>5, <1>6, <1>8
    <2>3. /\ fire' \in Fire /\ fire'.entry = planned.entry /\ fire'.at = planned.at
          /\ fire'.sent = planned.sent /\ fire'.slots = <<anchor>>
          /\ fire'.handoff = planned.handoff /\ fire'.owed = planned.owed
      <3> DEFINE one == <<anchor>>
      <3>1. one \in Seq(Nat)
        BY <2>1
      <3> HIDE DEF one
      <3>2. /\ Anchored(planned, one, now) \in Fire
            /\ Anchored(planned, one, now).entry = planned.entry
            /\ Anchored(planned, one, now).at = planned.at
            /\ Anchored(planned, one, now).sent = planned.sent
            /\ Anchored(planned, one, now).slots = one
            /\ Anchored(planned, one, now).handoff = planned.handoff
            /\ Anchored(planned, one, now).owed = planned.owed
        BY <1>1, <2>2, <3>1, AnchoredFire
      <3>3. fire' = Anchored(planned, one, now)
        BY <2>2 DEF one
      <3> QED
        BY <3>2, <3>3 DEF one
    <2> QED
      BY <1>1, <1>3, <1>5, <1>6, <1>8, <2>3 DEF anchor
  <1> QED
    BY <1>7, <1>8

LEMMA DecideStep == IInv /\ Decide => IInv'
  <1> SUFFICES ASSUME IInv, Decide PROVE IInv'
    OBVIOUS
  <1> DEFINE e == fire.entry
             anchor == Latest(MissedSlots(fire.entry, fire.at))
  <1>1. /\ TypeOK /\ TypedFacts /\ MarkTypes /\ pc = "claimed"
        /\ now' = now /\ policy' = policy /\ row' = row /\ brain' = brain /\ leader' = leader
        /\ healthy' = healthy /\ since' = since /\ changed' = changed /\ nap' = nap
        /\ parked' = parked /\ handoff' = handoff /\ backoff' = backoff /\ events' = events
    BY Typed, MarksAreTyped DEF Decide, IInv, gates
  <1>2. /\ seen.slot = e.next /\ seen.cad = e.cad /\ e \in Row
        /\ e.next \in 0..fire.at /\ e.next \in Nat /\ fire.at \in Nat /\ fire.at <= now /\ now \in Nat
        /\ changed \/ row.cad = e.cad
        /\ Fits(e, now) /\ Behind(e, brain)
    BY <1>1, Constants DEF IInv, Claim, Rows, TypedFacts
  <1>3. Fits(e, fire.at)
    <2>1. e.last \in Int /\ e.next \in Int /\ e.next # None /\ e.next <= fire.at
      BY <1>2, RowFields, Constants
    <2> QED
      BY <1>2, <2>1 DEF Fits
  <1>4. /\ fire' \in Fire /\ fire'.entry = e /\ fire'.at = fire.at /\ fire'.sent = 0
        /\ fire'.handoff = WasHandoff /\ fire'.owed = Owed
        /\ Plan # <<>> => pc' = "planned" /\ fire'.slots = Plan
        /\ Plan = <<>> => /\ pc' = "skipping" /\ policy = "skip" /\ ~Owed /\ e.cad # Once
                          /\ fire'.slots = <<anchor>>
    BY DecidedIs
  <1>5. pc' \in {"planned", "skipping"}
    BY <1>4
  <1>6. /\ Memory'
        /\ ~Owed => Lapsed'
        /\ entitled' \in [slot : MaybeSlot, cad : Cadence, at : Moment \cup {None}]
        /\ entitled'.slot = None <=> entitled'.at = None
        /\ entitled'.slot # None => entitled'.at <= fire.at
    BY <1>4, <1>5, DecideMemory
  <1>7. /\ Lateness = fire.at - seen.slot
        /\ seen' \in SeenTypes /\ seen'.slot = seen.slot /\ seen'.cad = seen.cad
        /\ seen.onTime \subseteq seen'.onTime
        /\ OnTime => <<fire.entry.cad, fire.at>> \in seen'.onTime
        /\ WasHandoff /\ ~OnTime => Lateness > PromotionGrace
        /\ PriorGrant => /\ entitled.slot # None /\ entitled.at \in Moment /\ entitled.at <= fire.at
                         /\ <<fire.entry.cad, entitled.at>> \in seen.onTime
    BY DecideMarks
  <1>8. /\ Plan \in Seq(Nat)
        /\ \A k \in 1..Len(Plan) : Plan[k] <= fire.at
        /\ \A k \in 1..(Len(Plan) - 1) : Follows(e.cad, Plan[k], Plan[k + 1], fire.at)
        /\ Owed \/ e.cad = Once => Plan = <<e.next>>
        /\ policy # "fire_all_missed" => Plan = <<>> \/ Len(Plan) = 1
        /\ policy = "fire_all_missed" =>
              /\ Plan # <<>>
              /\ OnGrid(e) => Plan[1] = e.next \/ AmongNewest(e.cad, Plan[1], fire.at)
        /\ policy = "skip" /\ ~Owed /\ e.cad # Once => Plan = <<>>
        /\ ~Owed /\ e.cad # Once =>
              /\ anchor \in Nat /\ anchor <= fire.at /\ NextAfter(e.cad, anchor) > fire.at
              /\ policy = "fire_one_missed" => Plan = <<anchor>>
    BY <1>1, <1>2, <1>3, PlanIs DEF TypeOK
  <1>9. TypeOK'
    <2> HIDE DEF e
    <2> QED
      BY <1>1, <1>4, <1>5, <1>6, <1>7 DEF TypeOK, SeenTypes
  <1>10. Rows'
    BY <1>1, <1>2, <1>4 DEF IInv, Rows
  <1>11. Claim'
    <2>1. parked = None
      BY <1>1 DEF MarkTypes
    <2> HIDE DEF e
    <2> QED
      BY <1>1, <1>2, <1>4, <1>5, <1>6, <1>7, <2>1 DEF Claim
  <1>12. Naps'
    BY <1>5 DEF Naps
  <1>13. Owed => OnTime \/ (PriorGrant /\ fire.at - entitled.at <= EntitlementAge)
    BY DEF Owed
  <1>14. OnTime => Owed
    BY DEF Owed
  <1>15. LateFireIsOwed'
    <2> SUFFICES ASSUME pc' = "planned", policy' = "skip", fire'.entry.cad # Once
                 PROVE  /\ seen'.slot = fire'.entry.next
                        /\ \E t \in (fire'.at - EntitlementAge)..fire'.at :
                              <<fire'.entry.cad, t>> \in seen'.onTime
      BY DEF LateFireIsOwed
    <2>1. Owed
      <3>1. Plan # <<>>
        BY <1>4
      <3> HIDE DEF Plan, Owed
      <3> QED
        BY <1>1, <1>4, <1>8, <3>1
    <2>2. EntitlementAge \in Nat
      BY Constants
    <2>3. CASE OnTime
      <3>1. fire.at \in (fire.at - EntitlementAge)..fire.at
        BY <1>2, <2>2
      <3> QED
        BY <1>2, <1>4, <1>7, <2>3, <3>1
    <2>4. CASE PriorGrant /\ fire.at - entitled.at <= EntitlementAge
      <3>1. entitled.at \in Int
        BY <1>1 DEF TypedFacts
      <3>2. entitled.at \in (fire.at - EntitlementAge)..fire.at
        BY <1>2, <1>7, <2>2, <2>4, <3>1
      <3> QED
        BY <1>2, <1>4, <1>7, <2>4, <3>2
    <2> QED
      BY <1>13, <2>1, <2>3, <2>4
  <1> HIDE DEF Plan, Owed, OnTime, PriorGrant, WasHandoff, NextAfter, OnGrid, anchor, Lateness, e
  <1>16. /\ fire'.slots # <<>> /\ Slot' = fire'.slots[1] /\ Len(fire'.slots) \in Nat
         /\ \A k \in 1..Len(fire'.slots) : fire'.slots[k] <= fire.at
         /\ policy # "fire_all_missed" => Len(fire'.slots) = 1
         /\ ~Owed /\ e.cad # Once /\ policy # "fire_all_missed" => fire'.slots[1] = anchor
    <2>1. CASE Plan # <<>>
      <3>1. /\ fire'.slots = Plan /\ Head(Plan) = Plan[1] /\ Len(Plan) \in Nat /\ Slot' = Head(Plan)
        BY <1>4, <1>8, <2>1 DEF Slot
      <3>2. ~Owed /\ e.cad # Once /\ policy # "fire_all_missed" => Plan[1] = anchor
        <4> SUFFICES ASSUME ~Owed, e.cad # Once, policy # "fire_all_missed" PROVE Plan[1] = anchor
          OBVIOUS
        <4>1. policy = "fire_one_missed"
          BY <1>1, <1>8, <2>1 DEF TypeOK
        <4>2. Plan = <<anchor>>
          BY <1>8, <4>1
        <4> QED
          BY <4>2
      <3> QED
        BY <1>8, <2>1, <3>1, <3>2
    <2>2. CASE Plan = <<>>
      <3>1. fire'.slots = <<anchor>> /\ anchor \in Nat /\ anchor <= fire.at
        BY <1>4, <1>8, <2>2
      <3>2. Slot' = Head(<<anchor>>)
        BY <3>1 DEF Slot
      <3> QED
        BY <3>1, <3>2
    <2> QED
      BY <2>1, <2>2
  <1>17. CatchUpIsOnePass'
    <2> SUFFICES ASSUME policy' # "fire_all_missed", CatchUp'
                 PROVE  NextAfter(fire'.entry.cad, Slot') > fire'.at
      BY DEF CatchUpIsOnePass
    <2>1. ~Owed /\ e.cad # Once
      BY <1>4 DEF CatchUp
    <2> QED
      BY <1>1, <1>4, <1>8, <1>16, <2>1
  <1>18. PlanFits'
    <2>1. fire'.owed => fire'.slots = <<fire'.entry.next>> /\ fire'.sent = 0
      <3>1. <<e.next>> # <<>>
        OBVIOUS
      <3>2. Owed => Plan = <<e.next>>
        BY <1>8
      <3> QED
        BY <1>4, <3>1, <3>2
    <2>2. ~fire'.owed => /\ Lapsed'
                         /\ fire'.handoff => fire'.at - seen'.slot > PromotionGrace
      BY <1>4, <1>6, <1>7, <1>14
    <2>3. pc' = "skipping" => policy' = "skip" /\ ~fire'.owed /\ fire'.entry.cad # Once
      <3>1. pc' = "skipping" => Plan = <<>>
        BY <1>4
      <3> QED
        BY <1>1, <1>4, <3>1
    <2>4. ASSUME policy = "fire_all_missed"
          PROVE  /\ Consecutive'
                 /\ fire'.entry.rev = brain'.rev /\ OnGrid(fire'.entry) =>
                       Slot' = fire'.entry.next \/ AmongNewest(fire'.entry.cad, Slot', fire'.at)
      <3>1. Plan # <<>> /\ fire'.slots = Plan
        BY <1>4, <1>8, <2>4
      <3>2. Consecutive'
        BY <1>4, <1>8, <3>1 DEF Consecutive
      <3>3. OnGrid(e) => Slot' = e.next \/ AmongNewest(e.cad, Slot', fire.at)
        BY <1>8, <1>16, <2>4, <3>1
      <3> QED
        BY <1>4, <3>2, <3>3
    <2> QED
      BY <1>1, <1>4, <1>16, <2>1, <2>2, <2>3, <2>4 DEF PlanFits
  <1>19. Plans'
    BY <1>15, <1>17, <1>18 DEF Plans
  <1> QED
    BY <1>6, <1>9, <1>10, <1>11, <1>12, <1>19 DEF IInv

-----------------------------------------------------------------------------
(* The invariant.                                                          *)

LEMMA NextIInv == IInv /\ [Next]_vars => IInv'
  <1> SUFFICES ASSUME IInv, [Next]_vars PROVE IInv'
    OBVIOUS
  <1>1. CASE Iterate
    BY <1>1, IterateUnhealthyStep, IterateIdleStep, IterateDueStep DEF Iterate
  <1>2. CASE Fan
    BY <1>2, ClaimUnhealthyStep, ParkStep, DecideStep, SendStep, AbortStep DEF Fan
  <1>3. CASE Answer
    BY <1>3, AcceptedStep, CursorAdvancedStep, RefusedStep, AdvanceRefusedStep, FailsStep DEF Answer
  <1>4. CASE World
    BY <1>4, EditCadenceStep, ToggleStep, OtherReplicaFiresStep, EchoStep, ElectedStep,
       DemotedStep, StreamBreaksStep, StreamRecoversStep, RestartStep DEF World
  <1>5. CASE Tick
    BY <1>5, TickStep
  <1>6. CASE UNCHANGED vars
    BY <1>6, StutterStep
  <1> QED
    BY <1>1, <1>2, <1>3, <1>4, <1>5, <1>6 DEF Next

\* The inductive invariant holds in every reachable state: it ties what the engine
\* remembers of a slot to what it saw of it, a plan to the clock it was made by, and
\* a nap to what it waits for (_prune_stale_fire_state, _fire_with_catch_up,
\* _sleep_until_next).
THEOREM TimingInvariant == Spec => []IInv
  <1>1. IInv /\ [Next]_vars => IInv'
    BY NextIInv
  <1> QED
    BY <1>1, InitIInv, PTL DEF Spec

\* Under catch_up="skip" a slot of a recurring schedule is dispatched late only if this
\* process attempted it on time, as a slot of this very cadence, and not too long ago,
\* for every grace, back-off, heartbeat and number of failures (engine.py:785-801,
\* 1618-1640).
THEOREM LateFiresAreOwed == Spec => []LateFireIsOwed
  <1>1. IInv => LateFireIsOwed
    BY DEF IInv, Plans, Draining, LateFireIsOwed
  <1> QED
    BY <1>1, TimingInvariant, PTL

\* A slot given up without being dispatched was never attempted on time by this
\* process within the entitlement's age, or was redefined since, and is no one-shot's
\* (engine.py:1139-1167).
THEOREM OwedSlotsAreKept == Spec => []NothingOwedIsDiscarded
  <1>1. IInv => NothingOwedIsDiscarded
    <2> SUFFICES ASSUME IInv, pc = "skipping"
                 PROVE  /\ policy = "skip" /\ fire.entry.cad # Once
                        /\ \/ seen.redefined \/ seen.onTime = {}
                           \/ \E attempt \in seen.onTime : fire.at - attempt[2] > EntitlementAge
      BY DEF NothingOwedIsDiscarded
    <2>1. PlanFits
      BY DEF IInv, Plans, Draining
    <2>2. policy = "skip" /\ ~fire.owed /\ fire.entry.cad # Once /\ Lapsed
      BY <2>1 DEF PlanFits
    <2>3. Clock = fire.at
      BY DEF Clock
    <2> QED
      BY <2>2, <2>3 DEF Lapsed
  <1> QED
    BY <1>1, TimingInvariant, PTL

\* Skipping or coalescing a backlog is one pass: after it nothing that was due at the
\* decision is pending, for every cadence and however long the backlog
\* (engine.py:1172-1244, 1932-1944).
THEOREM BacklogsGoInOnePass == Spec => []CatchUpIsOnePass
  <1>1. IInv => CatchUpIsOnePass
    BY DEF IInv, Plans, Draining, CatchUpIsOnePass
  <1> QED
    BY <1>1, TimingInvariant, PTL

\* The engine sleeps past a due slot only while a back-off of that cadence runs, the
\* stream is or was just unhealthy, or the replica is or was just a follower, for every
\* length of the naps (engine.py:2092-2180).
THEOREM OverdueSlotsAreExplained == Spec => []OverdueIsExplained
  <1>1. IInv => OverdueIsExplained
    <2> SUFFICES ASSUME IInv, pc = "asleep", ~Runnable, row.enabled, row.next \in 0..(now - 1)
                 PROVE  \/ now < backoff.until /\ backoff.cad = row.cad
                        \/ ~healthy \/ now < since.healthy + UnhealthySleep
                        \/ ~leader \/ now < since.leader + Recheck
      BY DEF OverdueIsExplained
    <2>1. TypedFacts /\ NapFits
      BY Typed DEF IInv, Naps
    <2>2. /\ now \in Nat /\ nap.until \in Nat /\ backoff.until \in Int
          /\ since.leader \in Nat /\ since.healthy \in Nat
          /\ nap.kind \in {"none", "wait", "unhealthy"}
          /\ Recheck \in Nat /\ UnhealthySleep \in Nat /\ None = -1
      BY <2>1, Constants DEF TypedFacts
    <2>3. row.next \in Nat /\ row.next < now /\ row.next # None
      BY <2>2
    <2>4. nap.until > now /\ ~(nap.kind = "wait" /\ changed)
      BY <2>2 DEF Runnable, Interrupted
    <2>5. CASE nap.kind = "none"
      BY <2>1, <2>2, <2>4, <2>5 DEF NapFits
    <2>6. CASE nap.kind = "unhealthy"
      BY <2>1, <2>2, <2>4, <2>6 DEF NapFits
    <2>7. CASE nap.kind = "wait" /\ parked = row.next
      BY <2>1, <2>2, <2>3, <2>4, <2>7 DEF NapFits
    <2>8. CASE nap.kind = "wait" /\ parked # row.next
      BY <2>1, <2>2, <2>3, <2>4, <2>8 DEF NapFits
    <2> QED
      BY <2>2, <2>5, <2>6, <2>7, <2>8
  <1> QED
    BY <1>1, TimingInvariant, PTL

\* What a step may do to the Brain's last fire.
LEMMA LastMoves ==
    ASSUME IInv, [Next]_vars
    PROVE  \/ brain'.last = brain.last \/ brain'.last = brain.next
           \/ InFlight /\ Fresh /\ brain'.last = Slot
  <1>1. brain \in Row /\ (InFlight => Slot \in Nat)
    BY Typed, HeadSlot DEF IInv, TypedFacts, InFlight, Draining
  <1>2. CASE EditCadence
    <2>1. PICK cad \in Cadence, next \in {brain.next, now + 1} :
             brain' = [brain EXCEPT !.cad = cad, !.next = next, !.rev = @ + 1]
      BY <1>2 DEF EditCadence
    <2> QED
      BY <1>1, <2>1 DEF Row
  <1>3. CASE Toggle
    BY <1>1, <1>3 DEF Toggle, Row
  <1>4. CASE OtherReplicaFires
    <2>1. brain.next \in Nat /\ brain' = Moved(brain, brain.next)
      BY <1>4, Typed DEF OtherReplicaFires, IInv, TypedFacts
    <2> QED
      BY <1>1, <2>1, MovedRow
  <1>5. ASSUME InFlight, Commit
        PROVE  brain' = brain \/ (Fresh /\ brain'.last = Slot)
    <2>1. Moved(brain, Slot).last = Slot
      BY <1>1, <1>5, MovedRow
    <2> HIDE DEF Slot
    <2> QED
      BY <1>5, <2>1 DEF Commit
  <1>6. CASE Answer
    BY <1>5, <1>6 DEF Answer, Accepted, CursorAdvanced, Refused, AdvanceRefused, Fails, InFlight
  <1>7. CASE Iterate
    BY <1>7 DEF Iterate, IterateUnhealthy, IterateIdle, IterateDue, WakeUp
  <1>8. CASE Fan
    BY <1>8 DEF Fan, ClaimUnhealthy, Park, Decide, Send, Abort
  <1>9. CASE Echo \/ Elected \/ Demoted \/ StreamBreaks \/ StreamRecovers \/ Restart
    BY <1>9 DEF Echo, Elected, Demoted, StreamBreaks, StreamRecovers, Restart
  <1>10. CASE Tick
    BY <1>10 DEF Tick
  <1>11. CASE UNCHANGED vars
    BY <1>11 DEF vars
  <1> QED
    BY <1>2, <1>3, <1>4, <1>6, <1>7, <1>8, <1>9, <1>10, <1>11 DEF Next, World

\* Under catch_up="fire_all_missed" the Brain's cursor leaves the pending slot of a
\* schedule on its grid by that slot's own dispatch, or for one of the MaxMissed
\* newest slots due at the decision: no failure, chunked drain, promotion or restart
\* loses any of these, and none is lost of a backlog within the cap (engine.py:1338-1364,
\* 1524-1534, interval.py:164-175).
THEOREM NewestMissedAreKept == Spec => FireAllKeepsTheNewest
  <1>1. IInv /\ [Next]_vars
          => [policy = "fire_all_missed" /\ OnGrid(brain) /\ brain'.last # brain.last
                => \/ brain'.last = brain.next
                   \/ pc = "firing" /\ AmongNewest(brain.cad, brain'.last, fire.at)]_vars
    <2> SUFFICES ASSUME IInv, [Next]_vars, policy = "fire_all_missed", OnGrid(brain),
                        brain'.last # brain.last
                 PROVE  \/ brain'.last = brain.next
                        \/ pc = "firing" /\ AmongNewest(brain.cad, brain'.last, fire.at)
      OBVIOUS
    <2>1. ASSUME InFlight, Fresh, brain'.last = Slot
          PROVE  \/ brain'.last = brain.next
                 \/ pc = "firing" /\ AmongNewest(brain.cad, brain'.last, fire.at)
      <3>1. PlanFits /\ Behind(fire.entry, brain) /\ pc # "asleep"
        BY <2>1 DEF IInv, Plans, Draining, Rows, InFlight
      <3>2. fire.entry = brain
        BY <2>1, <3>1 DEF Fresh, Behind
      <3>3. Slot = fire.entry.next \/ AmongNewest(fire.entry.cad, Slot, fire.at)
        BY <3>1, <3>2 DEF PlanFits
      <3>4. pc = "firing"
        BY <2>1, <3>1 DEF InFlight, PlanFits
      <3> QED
        BY <2>1, <3>2, <3>3, <3>4
    <2> QED
      BY <2>1, LastMoves
  <1> QED
    BY <1>1, TimingInvariant, PTL DEF Spec, FireAllKeepsTheNewest
=============================================================================
