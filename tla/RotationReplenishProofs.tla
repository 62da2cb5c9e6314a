---------------------- MODULE RotationReplenishProofs -----------------------
(***************************************************************************)
(* Proofs about Rotation, Replenish and MailKeys, for any accounts,        *)
(* models, workers, threads, providers, keys and bounds.                   *)
(*                                                                         *)
(* Rotation: every call of a handler writes at most the row of its own     *)
(* account, a rewrite of the table excepted.  So StaysCooling comes down   *)
(* to two facts: a patch computed from the row keeps its cooldown, but for *)
(* those EndsCooldown names, and Preserved keeps that of every row it      *)
(* replaces.                                                               *)
(* The invariant only says that what a worker carries along is of its      *)
(* type.                                                                   *)
(*                                                                         *)
(* Replenish: a thread that loops is the current one or accounted for, and *)
(* while somebody is in start_background all are (LoopInv).                *)
(*                                                                         *)
(* MailKeys: what was saved for a provider is in its slot, and whatever a  *)
(* request carries agrees with that (KeyInv).                              *)
(***************************************************************************)
EXTENDS Rotation, Replenish, MailKeys, FiniteSetTheorems, TLAPS

\* The counters never pass the number of jobs: what TypeOK needs to be inductive.
Inv == TypeOK /\ \A a \in Account : busy[a] <= jobs

-----------------------------------------------------------------------------
(* Rows *)

LEMMA MetaType == ASSUME NEW r \in Row \cup {NoRow} PROVE Meta(r) \in Row
  BY RotationAssumption DEF Meta, Fresh, Row

LEMMA MetaOf == /\ \A r \in Row : Meta(r) = r
                /\ ~Cooling(Meta(NoRow))
  BY RotationAssumption DEF Meta, Cooling, Fresh

LEMMA TaggedType ==
  ASSUME NEW r \in Row, NEW e \in BOOLEAN
  PROVE  Tagged(r, e) \in Row /\ Tagged(r, e).counted = r.counted /\ Tagged(r, e).held = r.held
  BY DEF Tagged, Row

LEMMA CooledType ==
  ASSUME NEW r \in Row
  PROVE  Cooled(r) \in Row /\ Cooling(Cooled(r))
  <1>1. [r EXCEPT !.counted = TRUE, !.held = TRUE] \in Row BY DEF Row
  <1>2. [r EXCEPT !.counted = TRUE, !.held = TRUE].held = TRUE BY DEF Row
  <1> QED BY <1>1, <1>2, TaggedType DEF Cooled, Cooling

LEMMA HealedType == ASSUME NEW r \in Row PROVE Healed(r) \in Row
  <1>1. 0 \in 0 .. KickAt BY RotationAssumption
  <1>2. [r EXCEPT !.counted = FALSE, !.held = FALSE, !.streak = 0] \in Row
    BY <1>1 DEF Row
  <1> QED BY <1>2, TaggedType DEF Healed

\* A row of a snapshot does not end the cooldown it finds.
LEMMA PreservedType ==
  ASSUME NEW before \in Row \cup {NoRow}, NEW old \in Row
  PROVE  Preserved(before, old) \in Row
         /\ (Cooling(Meta(before)) => Cooling(Preserved(before, old)))
  <1> DEFINE new == [old EXCEPT !.counted = @ \/ Meta(before).counted,
                                !.held = @ \/ Meta(before).held]
  <1>1. Meta(before) \in Row BY MetaType
  <1>2. /\ new \in Row /\ old.expired \in BOOLEAN
        /\ new.counted = (old.counted \/ Meta(before).counted)
        /\ new.held = (old.held \/ Meta(before).held)
    BY <1>1 DEF Row
  <1>3. Preserved(before, old) \in Row
        /\ Preserved(before, old).counted = new.counted /\ Preserved(before, old).held = new.held
    BY <1>2, TaggedType DEF Preserved
  <1> QED BY <1>2, <1>3 DEF Cooling

-----------------------------------------------------------------------------
(* Handlers *)

LEMMA RemovalCalls == \A b \in BOOLEAN : Removal(b) \in Seq(Calls) /\ Removal(b) # <<>>
  <1>1. /\ <<"snapshot", "drop", "rewrite">> \in Seq(Calls)
        /\ <<"snapshot", "drop", "rewrite">> # <<>>
    BY DEF Calls
  <1>2. /\ <<"drop", "snapshot", "rewrite">> \in Seq(Calls)
        /\ <<"drop", "snapshot", "rewrite">> # <<>>
    BY DEF Calls
  <1> QED BY <1>1, <1>2 DEF Removal

LEMMA UpstreamCalls ==
  /\ FreeUsage \in Seq(Calls) /\ SoftKick \in Seq(Calls)
  /\ \A c \in Classes, b \in BOOLEAN : Upstream(c, b) \in Seq(Calls)
  <1>1. FreeUsage \in Seq(Calls) /\ SoftKick \in Seq(Calls) /\ <<"read", "block">> \in Seq(Calls)
    BY DEF FreeUsage, SoftKick, Calls
  <1>2. \A c \in Classes, b \in BOOLEAN : Upstream(c, b) \in Seq(Calls)
    <2> SUFFICES ASSUME NEW c \in Classes, NEW b \in BOOLEAN PROVE Upstream(c, b) \in Seq(Calls)
      OBVIOUS
    <2>1. Removal(b) \in Seq(Calls) BY RemovalCalls
    <2>2. /\ <<"read", "block">> \o SoftKick \in Seq(Calls)
          /\ SoftKick \o Removal(b) \in Seq(Calls)
      BY <1>1, <2>1
    <2>3. <<>> \in Seq(Calls) OBVIOUS
    <2> QED BY <1>1, <2>2, <2>3 DEF Upstream, Classes
  <1> QED BY <1>1, <1>2

\* Every handler is a list of calls, and none is empty.
LEMMA HandlerCalls ==
  /\ LiveSuccess \in Seq(Calls) /\ LiveSuccess # <<>>
  /\ ProbeSuccess \in Seq(Calls) /\ ProbeSuccess # <<>>
  /\ \A b \in BOOLEAN : Removal(b) \in Seq(Calls) /\ Removal(b) # <<>>
  /\ \A c \in Classes, b \in BOOLEAN : /\ LiveFailure(c, b) \in Seq(Calls)
                                       /\ LiveFailure(c, b) # <<>>
                                       /\ ProbeFailure(c, b) \in Seq(Calls)
                                       /\ ProbeFailure(c, b) # <<>>
  <1>1. LiveSuccess \in Seq(Calls) /\ LiveSuccess # <<>>
    BY DEF LiveSuccess, Calls
  <1>2. ProbeSuccess \in Seq(Calls) /\ ProbeSuccess # <<>>
    BY DEF ProbeSuccess, Calls
  <1>3. \A b \in BOOLEAN : Removal(b) \in Seq(Calls) /\ Removal(b) # <<>> BY RemovalCalls
  <1>4. FreeUsage \in Seq(Calls) /\ SoftKick \in Seq(Calls) BY UpstreamCalls
  <1>5. \A c \in Classes, b \in BOOLEAN : Upstream(c, b) \in Seq(Calls) BY UpstreamCalls
  <1>6. \A c \in Classes, b \in BOOLEAN : LiveFailure(c, b) \in Seq(Calls) /\ LiveFailure(c, b) # <<>>
    <2> SUFFICES ASSUME NEW c \in Classes, NEW b \in BOOLEAN
                 PROVE  LiveFailure(c, b) \in Seq(Calls) /\ LiveFailure(c, b) # <<>>
      OBVIOUS
    <2> DEFINE gone == IF c = "quota" THEN Removal(b) ELSE <<>>
               last == IF c = "usage" THEN FreeUsage ELSE <<"cool">>
    <2>1. gone \in Seq(Calls) BY <1>3
    <2>2. last \in Seq(Calls)
      <3>1. <<"cool">> \in Seq(Calls) BY DEF Calls
      <3> QED BY <1>4, <3>1
    <2>3. <<"release">> \in Seq(Calls) /\ <<"hold">> \in Seq(Calls) BY DEF Calls
    <2>4. Upstream(c, b) \in Seq(Calls) BY <1>5
    <2> HIDE DEF gone, last
    <2>5. <<"release">> \o gone \in Seq(Calls) BY <2>1, <2>3
    <2>6. (<<"release">> \o gone) \o Upstream(c, b) \in Seq(Calls) BY <2>4, <2>5
    <2>7. ((<<"release">> \o gone) \o Upstream(c, b)) \o last \in Seq(Calls) BY <2>2, <2>6
    <2>8. LiveFailure(c, b)
            = (((<<"release">> \o gone) \o Upstream(c, b)) \o last) \o <<"hold">>
      BY DEF LiveFailure, gone, last
    <2> DEFINE most == ((<<"release">> \o gone) \o Upstream(c, b)) \o last
    <2> HIDE DEF most
    <2>9. most \in Seq(Calls) BY <2>7 DEF most
    <2>10. most \o <<"hold">> \in Seq(Calls) /\ Len(most \o <<"hold">>) = Len(most) + 1
      BY <2>3, <2>9
    <2>11. Len(most \o <<"hold">>) # 0 BY <2>9, <2>10
    <2> QED BY <2>8, <2>10, <2>11 DEF most
  <1>7. \A c \in Classes, b \in BOOLEAN : ProbeFailure(c, b) \in Seq(Calls) /\ ProbeFailure(c, b) # <<>>
    <2> SUFFICES ASSUME NEW c \in Classes, NEW b \in BOOLEAN
                 PROVE  ProbeFailure(c, b) \in Seq(Calls) /\ ProbeFailure(c, b) # <<>>
      OBVIOUS
    <2> DEFINE mid == IF c = "usage" THEN FreeUsage \o <<"streak">> ELSE <<"read", "fail">>
    <2>1. <<"streak">> \in Seq(Calls) /\ <<"read", "fail">> \in Seq(Calls) /\ <<"note">> \in Seq(Calls)
      BY DEF Calls
    <2>2. mid \in Seq(Calls) BY <1>4, <2>1
    <2>3. Upstream(c, b) \in Seq(Calls) BY <1>5
    <2>4. ProbeFailure(c, b) = (Upstream(c, b) \o mid) \o <<"note">>
      BY DEF ProbeFailure, mid
    <2> HIDE DEF mid
    <2> DEFINE most == Upstream(c, b) \o mid
    <2>5. most \in Seq(Calls) BY <2>2, <2>3
    <2> HIDE DEF most
    <2>6. most \o <<"note">> \in Seq(Calls) /\ Len(most \o <<"note">>) = Len(most) + 1
      BY <2>1, <2>5
    <2>7. Len(most \o <<"note">>) # 0 BY <2>5, <2>6
    <2> QED BY <2>4, <2>6, <2>7 DEF most
  <1> QED BY <1>1, <1>2, <1>3, <1>6, <1>7

-----------------------------------------------------------------------------
(* One call keeps the types *)

\* A handler that goes on with what is left of its calls.
LEMMA LeftType ==
  ASSUME TypeOK, NEW w \in Worker, NEW rest \in Seq(Calls), todo[w] # <<>>, Left(w, rest)
  PROVE  /\ on' \in [Worker -> Account \cup {None}] /\ about' \in [Worker -> Model \cup {None}]
         /\ todo' \in [Worker -> Seq(Calls)]
         /\ \A v \in Worker : todo'[v] # <<>> => on'[v] # None /\ about'[v] # None
  <1>1. todo' \in [Worker -> Seq(Calls)] /\ todo'[w] = rest
        /\ \A v \in Worker \ {w} : todo'[v] = todo[v]
    BY DEF TypeOK, Left
  <1>2. CASE rest = <<>>
    <2>1. /\ on' = [on EXCEPT ![w] = None] /\ about' = [about EXCEPT ![w] = None]
      BY <1>2 DEF Left
    <2> QED BY <1>1, <1>2, <2>1 DEF TypeOK
  <1>3. CASE rest # <<>>
    <2>1. on' = on /\ about' = about BY <1>3 DEF Left
    <2> QED BY <1>1, <2>1 DEF TypeOK
  <1> QED BY <1>2, <1>3

LEMMA DoesType ==
  ASSUME TypeOK, NEW w \in Worker, NEW c, Does(w, c)
  PROVE  /\ on' \in [Worker -> Account \cup {None}] /\ about' \in [Worker -> Model \cup {None}]
         /\ todo' \in [Worker -> Seq(Calls)]
         /\ \A v \in Worker : todo'[v] # <<>> => on'[v] # None /\ about'[v] # None
         /\ on[w] \in Account /\ about[w] \in Model
  <1>1. todo[w] \in Seq(Calls) /\ todo[w] # <<>> BY DEF TypeOK, Does
  <1>2. Tail(todo[w]) \in Seq(Calls) BY <1>1
  <1>3. on[w] \in Account /\ about[w] \in Model BY <1>1 DEF TypeOK
  <1> QED BY <1>1, <1>2, <1>3, LeftType DEF Does

\* A patch writes a row over a row.
LEMMA PatchType ==
  ASSUME Inv, NEW w \in Worker, NEW c, NEW r \in Row, Patches(w, c, r)
  PROVE  Inv'
  <1>1. Does(w, c) /\ row' = [row EXCEPT ![on[w]] = r]
        /\ UNCHANGED <<busy, seen, cache, holds, jobs, events, acts>>
    BY DEF Patches, Keeps
  <1>2. row' \in [Account -> Row \cup {NoRow}] BY <1>1, DoesType DEF Inv, TypeOK
  <1> QED BY <1>1, <1>2, DoesType DEF Inv, TypeOK

\* A call that writes no row and reads none.
LEMMA QuietType ==
  ASSUME Inv, NEW w \in Worker, UNCHANGED row, Keeps,
         (\E c \in Calls : Does(w, c))
         \/ (todo[w] # <<>> /\ \E rest \in Seq(Calls) : Left(w, rest))
  PROVE  Inv'
  <1>1. /\ on' \in [Worker -> Account \cup {None}] /\ about' \in [Worker -> Model \cup {None}]
        /\ todo' \in [Worker -> Seq(Calls)]
        /\ \A v \in Worker : todo'[v] # <<>> => on'[v] # None /\ about'[v] # None
    BY DoesType, LeftType DEF Inv
  <1> QED BY <1>1 DEF Inv, TypeOK, Keeps

LEMMA MineType ==
  ASSUME TypeOK, NEW w \in Worker, NEW c, Does(w, c)
  PROVE  Mine(w) \in Row /\ seen[w] \in Row /\ on[w] \in Account /\ about[w] \in Model
         /\ (row[on[w]] # NoRow => Mine(w) = row[on[w]])
  <1>1. on[w] \in Account /\ about[w] \in Model BY DoesType
  <1>2. row[on[w]] \in Row \cup {NoRow} BY <1>1 DEF TypeOK
  <1> QED BY <1>1, <1>2, MetaType DEF Mine, Meta, TypeOK

-----------------------------------------------------------------------------
(* One step: the invariant, and no cooldown that ends otherwise *)

Good == Inv' /\ \A a \in Account : ComesBack(a) => EndsCooldown(a)

LEMMA InitInv == Init => Inv
  <1> SUFFICES ASSUME Init PROVE Inv OBVIOUS
  <1>1. Fresh \in Row BY MetaType DEF Meta
  <1>2. [Fresh EXCEPT !.enabled = FALSE] \in Row BY <1>1 DEF Row
  <1>3. 0 \in 0 .. MaxJobs /\ 0 \in 0 .. MaxEvents BY RotationAssumption
  <1>4. row \in [Account -> Row \cup {NoRow}] BY <1>1, <1>2 DEF Init
  <1> QED BY <1>1, <1>3, <1>4 DEF Init, Inv, TypeOK

\* A step that leaves the table alone ends no cooldown.
LEMMA SameRows == ASSUME Inv', UNCHANGED row PROVE Good
  BY DEF Good, ComesBack

\* A patch that keeps the cooldown of the row it is computed from.
LEMMA PatchStays ==
  ASSUME Inv, NEW w \in Worker, NEW c, NEW r \in Row, Patches(w, c, r),
         Cooling(Mine(w)) => Cooling(r)
  PROVE  Good
  <1>1. Does(w, c) /\ row' = [row EXCEPT ![on[w]] = r] BY DEF Patches
  <1>2. on[w] \in Account /\ Meta(r) = r BY <1>1, MineType, MetaOf DEF Inv
  <1>3. \A a \in Account : ~ComesBack(a)
    BY <1>1, <1>2 DEF ComesBack, Inv, TypeOK, Mine
  <1> QED BY <1>3, PatchType DEF Good

\* A patch whose action is one of those that may end a cooldown.
LEMMA PatchEnds ==
  ASSUME Inv, NEW w \in Worker, NEW c, NEW r \in Row, Patches(w, c, r),
         Heal(w) \/ Clear(w) \/ Unheld(w) \/ Reenable(w)
  PROVE  Good
  <1>1. Does(w, c) /\ row' = [row EXCEPT ![on[w]] = r] BY DEF Patches
  <1>2. \A a \in Account : a # on[w] => ~ComesBack(a)
    BY <1>1 DEF ComesBack, Inv, TypeOK
  <1>3. EndsCooldown(on[w]) BY DEF EndsCooldown, Recovers, Registers
  <1> QED BY <1>2, <1>3, PatchType DEF Good

LEMMA EventGood ==
  ASSUME Inv, NEW a \in Account, NEW r \in Row, Event(a, r) \/ Act(a, r),
         (Cooling(Meta(row[a])) => Cooling(r)) \/ EndsCooldown(a)
  PROVE  Good
  <1>1. /\ events + acts < MaxEvents /\ row' = [row EXCEPT ![a] = r]
        /\ UNCHANGED <<busy, on, about, todo, seen, cache, holds, jobs>>
    BY DEF Event, Act, Happens, job
  <1>2. events' \in 0 .. MaxEvents /\ acts' \in 0 .. MaxEvents
    BY <1>1, RotationAssumption DEF Event, Act, Inv, TypeOK
  <1>3. Inv' BY <1>1, <1>2 DEF Inv, TypeOK
  <1>4. Meta(r) = r BY MetaOf
  <1>5. \A b \in Account : b # a => ~ComesBack(b)
    BY <1>1 DEF ComesBack, Inv, TypeOK
  <1>6. ComesBack(a) => EndsCooldown(a) BY <1>1, <1>4 DEF ComesBack, Inv, TypeOK
  <1> QED BY <1>3, <1>5, <1>6 DEF Good

-----------------------------------------------------------------------------
(* The calls *)

\* What the patches of the calls are computed from, and what they compute.
LEMMA RowsOf ==
  ASSUME Inv, NEW w \in Worker, NEW c, Does(w, c)
  PROVE  /\ Mine(w) \in Row /\ seen[w] \in Row /\ on[w] \in Account /\ about[w] \in Model
         /\ Streak(w) \in 0 .. KickAt
         /\ \A B \in SUBSET Model : LET r == [Mine(w) EXCEPT !.blocked = B]
                                    IN  r \in Row /\ Cooling(r) = Cooling(Mine(w))
         /\ \A n \in 0 .. KickAt : LET r == [Mine(w) EXCEPT !.streak = n]
                                   IN  r \in Row /\ Cooling(r) = Cooling(Mine(w))
  <1>1. Mine(w) \in Row /\ seen[w] \in Row /\ on[w] \in Account /\ about[w] \in Model
    BY MineType DEF Inv
  <1>2. Streak(w) \in 0 .. KickAt BY <1>1, RotationAssumption DEF Streak, Row
  <1>3. \A B \in SUBSET Model : LET r == [Mine(w) EXCEPT !.blocked = B]
                                IN  r \in Row /\ Cooling(r) = Cooling(Mine(w))
    BY <1>1 DEF Row, Cooling
  <1>4. \A n \in 0 .. KickAt : LET r == [Mine(w) EXCEPT !.streak = n]
                               IN  r \in Row /\ Cooling(r) = Cooling(Mine(w))
    BY <1>1 DEF Row, Cooling
  <1> QED BY <1>1, <1>2, <1>3, <1>4

LEMMA BlockGood == ASSUME Inv, NEW w \in Worker, Block(w) PROVE Good
  <1>1. Does(w, "block") BY DEF Block, Patches
  <1>2. seen[w].blocked \cup {about[w]} \in SUBSET Model BY <1>1, RowsOf DEF Row
  <1> QED BY <1>1, <1>2, RowsOf, PatchStays DEF Block

LEMMA FreeGood == ASSUME Inv, NEW w \in Worker, Free(w) PROVE Good
  <1> DEFINE r == [Cooled(Mine(w)) EXCEPT !.enabled = TRUE]
  <1>1. Does(w, "free") BY DEF Free, Patches
  <1>2. Mine(w) \in Row BY <1>1, RowsOf
  <1>3. Cooled(Mine(w)) \in Row /\ Cooling(Cooled(Mine(w))) BY <1>2, CooledType
  <1>4. r \in Row /\ Cooling(r) BY <1>3 DEF Row, Cooling
  <1> QED BY <1>4, PatchStays DEF Free

LEMMA CoolGood == ASSUME Inv, NEW w \in Worker, Cool(w) PROVE Good
  <1>1. Does(w, "cool") BY DEF Cool, Patches
  <1>2. Mine(w) \in Row BY <1>1, RowsOf
  <1> QED BY <1>2, CooledType, PatchStays DEF Cool

LEMMA HoldGood == ASSUME Inv, NEW w \in Worker, Hold(w) PROVE Good
  <1> DEFINE r == [Mine(w) EXCEPT !.held = TRUE]
  <1>1. Does(w, "hold") BY DEF Hold, Patches
  <1>2. Mine(w) \in Row BY <1>1, RowsOf
  <1>3. r \in Row /\ r.held = TRUE BY <1>2 DEF Row
  <1>4. Tagged(r, FALSE) \in Row /\ Cooling(Tagged(r, FALSE)) BY <1>3, TaggedType DEF Cooling
  <1> QED BY <1>4, PatchStays DEF Hold

LEMMA TouchGood == ASSUME Inv, NEW w \in Worker, Touch(w) PROVE Good
  <1> DEFINE e == seen[w].expired /\ seen[w].enabled /\ ~Cooling(seen[w])
  <1>1. Does(w, "touch") BY DEF Touch, Patches
  <1>2. Mine(w) \in Row /\ e \in BOOLEAN BY <1>1, RowsOf DEF Row
  <1>3. Tagged(Mine(w), e) \in Row /\ Cooling(Tagged(Mine(w), e)) = Cooling(Mine(w))
    BY <1>2, TaggedType DEF Cooling
  <1>4. Patches(w, "touch", Tagged(Mine(w), e)) BY DEF Touch
  <1> QED BY <1>3, <1>4, PatchStays

LEMMA QuietGood ==
  ASSUME Inv, NEW w \in Worker, UNCHANGED row, Keeps,
         (\E c \in Calls : Does(w, c))
         \/ (todo[w] # <<>> /\ \E rest \in Seq(Calls) : Left(w, rest))
  PROVE  Good
  BY QuietType, SameRows

LEMMA SettleGood == ASSUME Inv, NEW w \in Worker, Settle(w) PROVE Good
  <1>1. CASE Cooling(seen[w])
    <2>1. todo[w] # <<>> /\ Left(w, <<>>) /\ UNCHANGED row /\ Keeps BY <1>1 DEF Settle
    <2>2. <<>> \in Seq(Calls) OBVIOUS
    <2> QED BY <2>1, <2>2, QuietGood
  <1>2. CASE ~Cooling(seen[w])
    <2>1. Patches(w, "settle", [Mine(w) EXCEPT !.streak = 0]) BY <1>2 DEF Settle
    <2>2. Does(w, "settle") BY <2>1 DEF Patches
    <2>3. 0 \in 0 .. KickAt BY RotationAssumption
    <2> QED BY <2>1, <2>2, <2>3, RowsOf, PatchStays
  <1> QED BY <1>1, <1>2

LEMMA UnblockGood == ASSUME Inv, NEW w \in Worker, Unblock(w) PROVE Good
  <1>1. CASE about[w] \in seen[w].blocked
    <2>1. Patches(w, "unblock", [Mine(w) EXCEPT !.blocked = seen[w].blocked \ {about[w]}])
      BY <1>1 DEF Unblock
    <2>2. Does(w, "unblock") BY <2>1 DEF Patches
    <2>3. seen[w].blocked \ {about[w]} \in SUBSET Model BY <2>2, RowsOf DEF Row
    <2> QED BY <2>1, <2>2, <2>3, RowsOf, PatchStays
  <1>2. CASE about[w] \notin seen[w].blocked
    <2>1. Does(w, "unblock") /\ UNCHANGED row /\ Keeps BY <1>2 DEF Unblock
    <2> QED BY <2>1, QuietGood DEF Calls
  <1> QED BY <1>1, <1>2

LEMMA FailGood == ASSUME Inv, NEW w \in Worker, Fail(w) PROVE Good
  <1> DEFINE r == [Mine(w) EXCEPT !.streak = Streak(w)]
             p == IF Streak(w) >= KickAt THEN Cooled(r) ELSE r
  <1>1. Patches(w, "fail", p) BY DEF Fail
  <1>2. Does(w, "fail") BY <1>1 DEF Patches
  <1>3. r \in Row /\ Cooling(r) = Cooling(Mine(w)) BY <1>2, RowsOf
  <1> HIDE DEF r
  <1>4. p \in Row /\ (Cooling(Mine(w)) => Cooling(p)) BY <1>3, CooledType
  <1> QED BY <1>1, <1>4, PatchStays

LEMMA CountFailGood == ASSUME Inv, NEW w \in Worker, CountFail(w) PROVE Good
  <1>1. Does(w, "streak") BY DEF CountFail, Patches
  <1> QED BY <1>1, RowsOf, PatchStays DEF CountFail

LEMMA HealGood == ASSUME Inv, NEW w \in Worker, Heal(w) PROVE Good
  <1> DEFINE m == about[w]
             r == [Healed(Mine(w)) EXCEPT
                      !.blocked = IF m \in seen[w].blocked THEN seen[w].blocked \ {m} ELSE @]
  <1>1. Patches(w, "heal", r) BY DEF Heal
  <1>2. Does(w, "heal") BY <1>1 DEF Patches
  <1>3. Healed(Mine(w)) \in Row /\ seen[w].blocked \in SUBSET Model
    BY <1>2, RowsOf, HealedType DEF Row
  <1>4. r \in Row BY <1>3 DEF Row
  <1> QED BY <1>1, <1>4, PatchEnds

LEMMA ClearGood == ASSUME Inv, NEW w \in Worker, Clear(w) PROVE Good
  <1>1. Patches(w, "clear", Healed(Mine(w))) BY DEF Clear
  <1>2. Does(w, "clear") BY <1>1 DEF Patches
  <1>3. Healed(Mine(w)) \in Row BY <1>2, RowsOf, HealedType
  <1> QED BY <1>1, <1>3, PatchEnds

LEMMA UnheldGood == ASSUME Inv, NEW w \in Worker, Unheld(w) PROVE Good
  <1>1. Patches(w, "welcome", Healed(Mine(w))) BY DEF Unheld
  <1>2. Does(w, "welcome") BY <1>1 DEF Patches
  <1>3. Healed(Mine(w)) \in Row BY <1>2, RowsOf, HealedType
  <1> QED BY <1>1, <1>3, PatchEnds

LEMMA ReenableGood == ASSUME Inv, NEW w \in Worker, Reenable(w) PROVE Good
  <1>1. CASE seen[w].enabled
    <2>1. Does(w, "reenable") /\ UNCHANGED row /\ Keeps BY <1>1 DEF Reenable
    <2> QED BY <2>1, QuietGood DEF Calls
  <1>2. CASE ~seen[w].enabled
    <2>1. PICK stacked \in BOOLEAN :
              Patches(w, "reenable",
                      Tagged([Mine(w) EXCEPT !.enabled = TRUE, !.held = FALSE,
                                             !.counted = @ /\ stacked], FALSE))
      BY <1>2 DEF Reenable
    <2> DEFINE n == [Mine(w) EXCEPT !.enabled = TRUE, !.held = FALSE,
                                    !.counted = @ /\ stacked]
    <2>2. Does(w, "reenable") BY <2>1 DEF Patches
    <2>3. Mine(w) \in Row BY <2>2, RowsOf
    <2>4. n \in Row BY <2>3 DEF Row
    <2>5. Patches(w, "reenable", Tagged(n, FALSE)) BY <2>1
    <2> HIDE DEF n
    <2>6. Tagged(n, FALSE) \in Row BY <2>4, TaggedType
    <2> QED BY <2>5, <2>6, PatchEnds
  <1> QED BY <1>1, <1>2

LEMMA NoteGood == ASSUME Inv, NEW w \in Worker, Note(w) PROVE Good
  <1>1. Does(w, "note") BY DEF Note, Patches
  <1> QED BY <1>1, RowsOf, PatchStays DEF Note

LEMMA AnswerGood == ASSUME Inv, NEW w \in Worker, Answer(w) \/ Verdict(w) PROVE Good
  <1>1. PICK rest \in Seq(Calls) : Left(w, rest)
    <2>1. CASE Answer(w) BY <2>1, HandlerCalls DEF Answer, Answers
    <2>2. CASE Verdict(w)
      <3>1. PICK rest \in {ProbeSuccess, <<"note">>} \cup
                            {ProbeFailure(c, b) : c \in Classes \ {"quota"}, b \in BOOLEAN} :
                Left(w, rest)
        BY <2>2 DEF Verdict, Answers
      <3>2. rest \in Seq(Calls)
        <4>1. CASE rest = ProbeSuccess BY <4>1, HandlerCalls
        <4>3. CASE rest = <<"note">> BY <4>3 DEF Calls
        <4>2. CASE \E c \in Classes, b \in BOOLEAN : rest = ProbeFailure(c, b)
          BY <4>2, HandlerCalls
        <4> QED BY <3>1, <4>1, <4>2, <4>3
      <3> QED BY <3>1, <3>2
    <2> QED BY <2>1, <2>2
  <1>2. UNCHANGED row /\ Keeps BY DEF Answer, Verdict, Answers
  <1>3. todo[w] # <<>>
    <2>1. \E c : todo[w] = <<c>> BY DEF Answer, Verdict, Answers
    <2> QED BY <2>1
  <1> QED BY <1>1, <1>2, <1>3, QuietGood

LEMMA ReleaseGood == ASSUME Inv, NEW w \in Worker, Release(w) PROVE Good
  <1> DEFINE n == IF busy[on[w]] = 0 THEN 0 ELSE busy[on[w]] - 1
  <1>1. /\ Does(w, "release") /\ UNCHANGED <<row, seen, cache, jobs, events, acts>>
        /\ busy' = [busy EXCEPT ![on[w]] = n]
        /\ holds' = [holds EXCEPT ![w] = FALSE]
    BY DEF Release
  <1>2. on[w] \in Account BY <1>1, RowsOf
  <1>3. n \in 0 .. MaxJobs /\ n <= jobs BY <1>2, RotationAssumption DEF Inv, TypeOK
  <1>4. busy' \in [Account -> 0 .. MaxJobs] /\ \A a \in Account : busy'[a] <= jobs'
    BY <1>1, <1>3 DEF Inv, TypeOK
  <1>5. Inv' BY <1>1, <1>4, DoesType DEF Inv, TypeOK
  <1> QED BY <1>1, <1>5, SameRows

LEMMA ReadGood == ASSUME Inv, NEW w \in Worker, Read(w) PROVE Good
  <1>1. /\ Does(w, "read") /\ UNCHANGED <<row, busy, cache, holds, jobs, events, acts>>
        /\ seen' = [seen EXCEPT ![w] = Mine(w)]
    BY DEF Read, Mine
  <1>2. Mine(w) \in Row BY <1>1, RowsOf
  <1>3. Inv' BY <1>1, <1>2, DoesType DEF Inv, TypeOK
  <1> QED BY <1>1, <1>3, SameRows

LEMMA SnapshotGood == ASSUME Inv, NEW w \in Worker, Snapshot(w) PROVE Good
  <1>1. /\ Does(w, "snapshot") /\ UNCHANGED <<row, busy, seen, holds, jobs, events, acts>>
        /\ cache' = [cache EXCEPT ![w] = row]
    BY DEF Snapshot
  <1>2. Inv' BY <1>1, DoesType DEF Inv, TypeOK
  <1> QED BY <1>1, <1>2, SameRows

LEMMA DropGood == ASSUME Inv, NEW w \in Worker, Drop(w) PROVE Good
  <1>1. Does(w, "drop") /\ Keeps /\ row' = [row EXCEPT ![on[w]] = NoRow] BY DEF Drop
  <1>2. Inv' BY <1>1, DoesType DEF Inv, TypeOK, Keeps
  <1>3. \A a \in Account : a # on[w] => ~ComesBack(a)
    BY <1>1 DEF ComesBack, Inv, TypeOK
  <1>4. EndsCooldown(on[w]) BY DEF EndsCooldown, Vanishes
  <1> QED BY <1>2, <1>3, <1>4 DEF Good

\* The rows of a snapshot, whoever wrote since it was taken.
LEMMA RewriteGood == ASSUME Inv, NEW w \in Worker, Rewrite(w) PROVE Good
  <1> DEFINE a == on[w]
             old == cache[w]
  <1>1. /\ Does(w, "rewrite") /\ UNCHANGED <<busy, seen, holds, jobs, events, acts>>
        /\ row' = IF old[a] = NoRow THEN row ELSE Rewritten(old, a)
        /\ cache' = [cache EXCEPT ![w] = [b \in Account |-> NoRow]]
    BY DEF Rewrite
  <1>2. old \in [Account -> Row \cup {NoRow}] /\ row \in [Account -> Row \cup {NoRow}]
    BY DEF Inv, TypeOK
  <1>3. \A b \in Account : old[b] # NoRow =>
            /\ Preserved(row[b], old[b]) \in Row
            /\ Cooling(Meta(row[b])) => Cooling(Meta(Preserved(row[b], old[b])))
    BY <1>2, PreservedType, MetaOf
  <1>4. Rewritten(old, a) \in [Account -> Row \cup {NoRow}]
    BY <1>3 DEF Rewritten
  <1>5. Inv' BY <1>1, <1>2, <1>4, DoesType DEF Inv, TypeOK
  <1>6. \A b \in Account : b # a /\ old[b] # NoRow => ~ComesBack(b)
    BY <1>1, <1>2, <1>3 DEF ComesBack, Rewritten
  <1>7. \A b \in Account : b = a \/ old[b] = NoRow => EndsCooldown(b)
    BY DEF EndsCooldown, Vanishes
  <1> QED BY <1>5, <1>6, <1>7 DEF Good

LEMMA WorkGood == ASSUME Inv, NEW w \in Worker, Work(w) PROVE Good
  BY AnswerGood, ReleaseGood, ReadGood, BlockGood, FreeGood, CoolGood, HoldGood, TouchGood,
     SettleGood, UnblockGood, FailGood, CountFailGood, HealGood, ClearGood, UnheldGood,
     ReenableGood, NoteGood, SnapshotGood, DropGood, RewriteGood
  DEF Work

-----------------------------------------------------------------------------
(* Jobs and events *)

LEMMA BeginType ==
  ASSUME Inv, NEW w \in Worker, NEW a \in Account, NEW m \in Model, NEW calls \in Seq(Calls),
         Begin(w, a, m, calls), UNCHANGED <<seen, cache, events, acts, row>>,
         holds' \in [Worker -> BOOLEAN], busy' \in [Account -> Int],
         \A b \in Account : 0 <= busy'[b] /\ busy'[b] <= jobs + 1
  PROVE  Good
  <1>1. jobs' = jobs + 1 /\ jobs' \in 0 .. MaxJobs
    BY RotationAssumption DEF Begin, Inv, TypeOK
  <1>2. busy' \in [Account -> 0 .. MaxJobs] /\ \A b \in Account : busy'[b] <= jobs'
    BY <1>1, RotationAssumption
  <1>3. /\ on' \in [Worker -> Account \cup {None}] /\ about' \in [Worker -> Model \cup {None}]
        /\ todo' \in [Worker -> Seq(Calls)]
        /\ \A v \in Worker : todo'[v] # <<>> => on'[v] # None /\ about'[v] # None
    BY RotationAssumption DEF Begin, Inv, TypeOK
  <1>4. Inv' BY <1>1, <1>2, <1>3 DEF Inv, TypeOK
  <1> QED BY <1>4, SameRows

LEMMA JobsGood ==
  ASSUME Inv, NEW w \in Worker, NEW a \in Account,
         Remove(w, a) \/ \E m \in Model : Serve(w, a, m) \/ Probe(w, a, m) \/ Welcome(w, a, m)
  PROVE  Good
  <1>1. /\ <<"answer">> \in Seq(Calls) /\ <<"verdict">> \in Seq(Calls)
        /\ <<"welcome", "read", "reenable">> \in Seq(Calls)
    BY DEF Calls
  <1>2. jobs \in Int /\ \A b \in Account : busy[b] \in Int /\ 0 <= busy[b] /\ busy[b] <= jobs
    BY RotationAssumption DEF Inv, TypeOK
  <1>3. busy \in [Account -> Int] BY <1>2 DEF Inv, TypeOK
  <1>a. holds \in [Worker -> BOOLEAN] BY DEF Inv, TypeOK
  <1>b. ASSUME NEW m \in Model, NEW calls \in Seq(Calls), Begin(w, a, m, calls),
               UNCHANGED <<row, busy, seen, cache, holds, events, acts>>
        PROVE  Good
    <2>1. busy' \in [Account -> Int] /\ \A b \in Account : 0 <= busy'[b] /\ busy'[b] <= jobs + 1
      BY <1>2, <1>3, <1>b
    <2> QED BY <1>a, <1>b, <2>1, BeginType
  <1>4. CASE Remove(w, a)
    <2>1. PICK warm \in BOOLEAN, m \in Model : Begin(w, a, m, Removal(warm))
      BY <1>4 DEF Remove
    <2>2. UNCHANGED <<row, busy, seen, cache, holds, events, acts>> BY <1>4 DEF Remove
    <2> QED BY <2>1, <2>2, <1>b, HandlerCalls
  <1>5. CASE \E m \in Model : Probe(w, a, m)
    <2>1. PICK m \in Model : Begin(w, a, m, <<"verdict">>) BY <1>5 DEF Probe
    <2>2. UNCHANGED <<row, busy, seen, cache, holds, events, acts>> BY <1>5 DEF Probe
    <2> QED BY <1>1, <2>1, <2>2, <1>b
  <1>6. ASSUME NEW m \in Model, Serve(w, a, m) PROVE Good
    <2>b. PICK head \in BOOLEAN : Pick(w, a, m, head)
      BY <1>6 DEF Serve, Acquire, PickSticky, PickOfChain
    <2>1. /\ busy' = IF head THEN [busy EXCEPT ![a] = @ + 1] ELSE busy
          /\ holds' = [holds EXCEPT ![w] = head]
      BY <2>b DEF Pick
    <2>a. Begin(w, a, m, <<"answer">>) /\ UNCHANGED <<seen, cache, events, acts, row>>
      BY <2>b DEF Pick
    <2>2. busy' \in [Account -> Int] /\ \A b \in Account : 0 <= busy'[b] /\ busy'[b] <= jobs + 1
      BY <1>2, <1>3, <2>1
    <2>3. holds' \in [Worker -> BOOLEAN] BY <2>1 DEF Inv, TypeOK
    <2> QED BY <1>1, <2>a, <2>2, <2>3, BeginType
  <1>7. CASE \E m \in Model : Welcome(w, a, m)
    <2>1. PICK m \in Model : Begin(w, a, m, <<"welcome", "read", "reenable">>)
      BY <1>7 DEF Welcome
    <2>2. UNCHANGED <<row, busy, seen, cache, holds, events, acts>> BY <1>7 DEF Welcome
    <2> QED BY <1>1, <2>1, <2>2, <1>b
  <1> QED BY <1>4, <1>5, <1>6, <1>7

LEMMA EventsGood ==
  ASSUME Inv, NEW a \in Account,
         \/ MarkExpired(a) \/ RenewalFails(a) \/ Renewed(a) \/ Enable(a) \/ Disable(a)
         \/ ClearCooldown(a) \/ BillingHealthy(a) \/ Import(a) \/ \E m \in Model : BlockEnds(a, m)
  PROVE  Good
  <1> DEFINE r == Meta(row[a])
  <1>1. row[a] \in Row \cup {NoRow} BY DEF Inv, TypeOK
  <1>2. r \in Row /\ (row[a] # NoRow => r = row[a]) BY <1>1, MetaType DEF Meta
  <1>a. row[a] = NoRow => ~Cooling(r) BY MetaOf
  <1> HIDE DEF r
  <1>3. CASE MarkExpired(a)
    <2>1. [r EXCEPT !.expired = TRUE] \in Row BY <1>2 DEF Row
    <2>2. Cooling([r EXCEPT !.expired = TRUE]) = Cooling(r) BY <1>2 DEF Row, Cooling
    <2> QED BY <1>2, <1>3, <2>1, <2>2, EventGood DEF MarkExpired, r
  <1>4. CASE RenewalFails(a)
    <2> DEFINE n == [r EXCEPT !.expired = TRUE, !.failing = TRUE]
    <2>1. n \in Row /\ Cooling(n) = Cooling(r) BY <1>2 DEF Row, Cooling
    <2> QED BY <1>2, <1>4, <2>1, EventGood DEF RenewalFails, r
  <1>5. CASE Renewed(a)
    <2> DEFINE n == [r EXCEPT !.expired = FALSE, !.failing = FALSE, !.enabled = TRUE]
    <2>1. n \in Row /\ Cooling(n) = Cooling(r) BY <1>2 DEF Row, Cooling
    <2> QED BY <1>2, <1>5, <2>1, EventGood DEF Renewed, r
  <1>6. CASE Enable(a)
    <2> DEFINE n == [r EXCEPT !.enabled = TRUE, !.held = FALSE, !.blocked = {}]
    <2>1. n \in Row BY <1>2 DEF Row
    <2>2. Tagged(n, FALSE) \in Row BY <2>1, TaggedType
    <2>3. EndsCooldown(a) BY <1>6 DEF EndsCooldown, Recovers
    <2> QED BY <1>6, <2>2, <2>3, EventGood DEF Enable, r
  <1>7. CASE Disable(a)
    <2> DEFINE n == [r EXCEPT !.enabled = FALSE]
    <2>1. n \in Row /\ Cooling(n) = Cooling(r) BY <1>2 DEF Row, Cooling
    <2>2. Tagged(n, FALSE) \in Row /\ Cooling(Tagged(n, FALSE)) = Cooling(n)
      BY <2>1, TaggedType DEF Cooling
    <2> QED BY <1>2, <1>7, <2>1, <2>2, EventGood DEF Disable, r
  <1>8. CASE ClearCooldown(a)
    <2>1. EndsCooldown(a) BY <1>8 DEF EndsCooldown, Recovers
    <2> QED BY <1>2, <1>8, <2>1, HealedType, EventGood DEF ClearCooldown, r
  <1>9. CASE BillingHealthy(a)
    <2> DEFINE n == [r EXCEPT !.enabled = TRUE]
    <2>1. n \in Row /\ Cooling(n) = Cooling(r) BY <1>2 DEF Row, Cooling
    <2>2. Tagged(n, FALSE) \in Row /\ Cooling(Tagged(n, FALSE)) = Cooling(n)
      BY <2>1, TaggedType DEF Cooling
    <2> QED BY <1>2, <1>9, <2>1, <2>2, EventGood DEF BillingHealthy, Reenabled, r
  <1>10. CASE Import(a)
    <2>1. Fresh \in Row BY MetaType DEF Meta
    <2> QED BY <1>a, <1>10, <2>1, EventGood DEF Import, r
  <1>11. ASSUME NEW m \in Model, BlockEnds(a, m) PROVE Good
    <2> DEFINE n == [row[a] EXCEPT !.blocked = @ \ {m}]
    <2>1. row[a] \in Row BY <1>1, <1>11 DEF BlockEnds
    <2>2. n \in Row /\ Cooling(n) = Cooling(row[a]) BY <2>1 DEF Row, Cooling
    <2> QED BY <1>2, <1>11, <2>2, EventGood DEF BlockEnds, r
  <1> QED BY <1>3, <1>4, <1>5, <1>6, <1>7, <1>8, <1>9, <1>10, <1>11

LEMMA CounterGood == ASSUME Inv, NEW a \in Account, CounterEnds(a) PROVE Good
  <1>1. /\ UNCHANGED <<row, on, about, todo, seen, cache, holds, jobs, events, acts>>
        /\ busy' = [busy EXCEPT ![a] = 0]
    BY DEF CounterEnds, job
  <1>2. jobs \in Nat BY RotationAssumption DEF Inv, TypeOK
  <1>3. 0 \in 0 .. MaxJobs BY RotationAssumption
  <1>4. Inv' BY <1>1, <1>2, <1>3 DEF Inv, TypeOK
  <1> QED BY <1>1, <1>4, SameRows

LEMMA StepGood == Inv /\ [Next]_vars => Good
  <1> SUFFICES ASSUME Inv, [Next]_vars PROVE Good OBVIOUS
  <1>1. CASE Next BY <1>1, WorkGood, JobsGood, EventsGood, CounterGood DEF Next
  <1>2. CASE UNCHANGED vars
    <2>1. Inv' BY <1>2 DEF Inv, TypeOK, vars
    <2> QED BY <1>2, <2>1, SameRows DEF vars
  <1> QED BY <1>1, <1>2

-----------------------------------------------------------------------------
(* In-flight counters *)

Holders(a) == {w \in Worker : on[w] = a /\ holds[w]}

\* A worker that counts as in flight waits for its answer, or gives back its
\* slot before anything else.
Owed == \A w \in Worker :
           holds[w] => todo[w] = <<"answer">> \/ (todo[w] # <<>> /\ Head(todo[w]) = "release")

CountInv == TypeOK /\ Owed /\ NeverOvercounted

LEMMA HoldersCount == \A a : IsFiniteSet(Holders(a)) /\ Cardinality(Holders(a)) \in Nat
  <1> SUFFICES ASSUME NEW a PROVE IsFiniteSet(Holders(a)) /\ Cardinality(Holders(a)) \in Nat
    OBVIOUS
  <1>1. Holders(a) \subseteq Worker BY DEF Holders
  <1> QED BY <1>1, RotationAssumption, FS_Subset, FS_CardinalityType

\* The answer to a request is handled by giving back its slot first.
LEMMA ReleaseFirst ==
  \A h \in {LiveSuccess} \cup {LiveFailure(c, b) : c \in Classes, b \in BOOLEAN} :
     h \in Seq(Calls) /\ h # <<>> /\ Head(h) = "release"
  <1>1. LiveSuccess \in Seq(Calls) /\ LiveSuccess # <<>> /\ Head(LiveSuccess) = "release"
    BY HandlerCalls DEF LiveSuccess
  <1>2. ASSUME NEW c \in Classes, NEW b \in BOOLEAN PROVE Head(LiveFailure(c, b)) = "release"
    <2> DEFINE gone == IF c = "quota" THEN Removal(b) ELSE <<>>
               last == IF c = "usage" THEN FreeUsage ELSE <<"cool">>
    <2>1. gone \in Seq(Calls) BY HandlerCalls
    <2>2. Upstream(c, b) \in Seq(Calls) BY UpstreamCalls
    <2>3. last \in Seq(Calls)
      <3>1. <<"cool">> \in Seq(Calls) BY DEF Calls
      <3> QED BY <3>1, UpstreamCalls
    <2>4. <<"release">> \in Seq(Calls) /\ <<"hold">> \in Seq(Calls) BY DEF Calls
    <2>5. LiveFailure(c, b)
            = (((<<"release">> \o gone) \o Upstream(c, b)) \o last) \o <<"hold">>
      BY DEF LiveFailure, gone, last
    <2> HIDE DEF gone, last
    <2>6. \A s, t \in Seq(Calls) : s # <<>> /\ Head(s) = "release" =>
             s \o t \in Seq(Calls) /\ s \o t # <<>> /\ Head(s \o t) = "release"
      OBVIOUS
    <2>7. <<"release">> # <<>> /\ Head(<<"release">>) = "release" OBVIOUS
    <2> DEFINE s1 == <<"release">> \o gone
               s2 == s1 \o Upstream(c, b)
               s3 == s2 \o last
    <2>8. s1 \in Seq(Calls) /\ s1 # <<>> /\ Head(s1) = "release" BY <2>1, <2>4, <2>6, <2>7
    <2> HIDE DEF s1
    <2>9. s2 \in Seq(Calls) /\ s2 # <<>> /\ Head(s2) = "release" BY <2>2, <2>6, <2>8
    <2> HIDE DEF s2
    <2>10. s3 \in Seq(Calls) /\ s3 # <<>> /\ Head(s3) = "release" BY <2>3, <2>6, <2>9
    <2> HIDE DEF s3
    <2>11. Head(s3 \o <<"hold">>) = "release" BY <2>4, <2>6, <2>10
    <2> QED BY <2>5, <2>11 DEF s1, s2, s3
  <1> QED BY <1>1, <1>2, HandlerCalls

\* A step that moves only workers that count as nothing.
LEMMA Uncounted ==
  ASSUME CountInv, TypeOK', UNCHANGED <<busy, holds>>,
         \A v \in Worker : holds[v] => on'[v] = on[v] /\ todo'[v] = todo[v]
  PROVE  CountInv'
  <1>1. \A a \in Account : Holders(a)' = Holders(a)
    <2> SUFFICES ASSUME NEW a \in Account, NEW v \in Worker
                 PROVE  (on'[v] = a /\ holds'[v]) <=> (on[v] = a /\ holds[v])
      BY DEF Holders
    <2>1. holds \in [Worker -> BOOLEAN] BY DEF CountInv, TypeOK
    <2> QED BY <2>1
  <1>2. NeverOvercounted' BY <1>1 DEF CountInv, NeverOvercounted, Holders
  <1>3. Owed' BY DEF CountInv, Owed
  <1> QED BY <1>2, <1>3 DEF CountInv

\* A call other than the answer and the release is made by such a worker.
LEMMA CallUncounted ==
  ASSUME CountInv, TypeOK', NEW w \in Worker, NEW c, c \notin {"answer", "release"},
         todo[w] # <<>>, Head(todo[w]) = c, NEW rest, Left(w, rest), UNCHANGED <<busy, holds>>
  PROVE  CountInv'
  <1>1. todo[w] # <<"answer">> BY DEF Left
  <1>2. ~holds[w] BY <1>1 DEF CountInv, Owed
  <1>3. \A v \in Worker \ {w} : on'[v] = on[v] /\ todo'[v] = todo[v]
    BY DEF Left, CountInv, TypeOK
  <1> QED BY <1>2, <1>3, Uncounted

LEMMA AnswerCount == ASSUME CountInv, TypeOK', NEW w \in Worker, Answer(w) PROVE CountInv'
  <1>1. PICK h \in {LiveSuccess} \cup {LiveFailure(c, b) : c \in Classes, b \in BOOLEAN} :
           Left(w, h)
    BY DEF Answer, Answers
  <1>2. h # <<>> /\ Head(h) = "release" BY ReleaseFirst
  <1>3. on' = on /\ todo' = [todo EXCEPT ![w] = h] /\ UNCHANGED <<busy, holds>>
    <2>1. on' = on /\ todo' = [todo EXCEPT ![w] = h] BY <1>1, <1>2 DEF Left
    <2>2. UNCHANGED <<busy, holds>> BY DEF Answer, Answers, Keeps
    <2> QED BY <2>1, <2>2
  <1>4. \A a \in Account : Holders(a)' = Holders(a) BY <1>3 DEF Holders
  <1>5. NeverOvercounted' BY <1>3, <1>4 DEF CountInv, NeverOvercounted, Holders
  <1>6. Owed'
    <2> SUFFICES ASSUME NEW v \in Worker, holds[v]
                 PROVE  todo'[v] = <<"answer">> \/ (todo'[v] # <<>> /\ Head(todo'[v]) = "release")
      BY <1>3 DEF Owed
    <2>1. CASE v = w BY <2>1, <1>2, <1>3 DEF CountInv, TypeOK
    <2>2. CASE v # w BY <2>2, <1>3 DEF CountInv, TypeOK, Owed
    <2> QED BY <2>1, <2>2
  <1> QED BY <1>5, <1>6 DEF CountInv

LEMMA ReleaseCount == ASSUME CountInv, TypeOK', NEW w \in Worker, Release(w) PROVE CountInv'
  <1> DEFINE n == IF busy[on[w]] = 0 THEN 0 ELSE busy[on[w]] - 1
  <1>1. /\ Does(w, "release")
        /\ busy' = [busy EXCEPT ![on[w]] = n]
        /\ holds' = [holds EXCEPT ![w] = FALSE]
    BY DEF Release
  <1>2. Left(w, Tail(todo[w])) BY <1>1 DEF Does
  <1>3. /\ ~holds'[w]
        /\ \A v \in Worker \ {w} : holds'[v] = holds[v] /\ on'[v] = on[v] /\ todo'[v] = todo[v]
    BY <1>1, <1>2 DEF Left, CountInv, TypeOK
  <1>4. Owed' BY <1>3 DEF CountInv, Owed
  <1>5. \A a \in Account : Holders(a)' = Holders(a) \ {w}
    <2> SUFFICES ASSUME NEW a \in Account, NEW v \in Worker
                 PROVE  (on'[v] = a /\ holds'[v]) <=> (on[v] = a /\ holds[v] /\ v # w)
      BY DEF Holders
    <2>1. holds \in [Worker -> BOOLEAN] BY DEF CountInv, TypeOK
    <2>2. CASE v = w BY <2>2, <1>3
    <2>3. CASE v # w BY <2>1, <2>3, <1>3
    <2> QED BY <2>2, <2>3
  <1>6. ASSUME NEW a \in Account PROVE busy'[a] <= Cardinality(Holders(a)')
    <2>1. busy[a] \in Nat /\ busy[a] <= Cardinality(Holders(a))
      BY RotationAssumption DEF CountInv, TypeOK, NeverOvercounted, Holders
    <2>2. Holders(a)' = Holders(a) \ {w} BY <1>5
    <2>3. Cardinality(Holders(a) \ {w})
            = IF w \in Holders(a) THEN Cardinality(Holders(a)) - 1 ELSE Cardinality(Holders(a))
      BY HoldersCount, FS_RemoveElement
    <2>4. Cardinality(Holders(a)) \in Nat BY HoldersCount
    <2>5. CASE a = on[w]
      <3>1. busy'[a] = n BY <1>1, <2>5 DEF CountInv, TypeOK
      <3>2. Cardinality(Holders(a) \ {w}) >= Cardinality(Holders(a)) - 1 BY <2>3, <2>4
      <3>3. Cardinality(Holders(a) \ {w}) \in Nat BY HoldersCount, FS_Subset, FS_CardinalityType,
                                                   FS_RemoveElement
      <3> QED BY <2>1, <2>2, <2>4, <2>5, <3>1, <3>2, <3>3
    <2>6. CASE a # on[w]
      <3>1. busy'[a] = busy[a] BY <1>1, <2>6 DEF CountInv, TypeOK
      <3>2. w \notin Holders(a) BY <2>6 DEF Holders
      <3> QED BY <2>1, <2>2, <2>3, <3>1, <3>2
    <2> QED BY <2>5, <2>6
  <1> QED BY <1>4, <1>6 DEF CountInv, NeverOvercounted, Holders

\* A worker that begins counts as nothing before.
LEMMA PickCount ==
  ASSUME CountInv, TypeOK', NEW w \in Worker, NEW a \in Account, NEW m \in Model,
         NEW counted \in BOOLEAN, Pick(w, a, m, counted)
  PROVE  CountInv'
  <1>1. /\ todo[w] = <<>> /\ on' = [on EXCEPT ![w] = a] /\ todo' = [todo EXCEPT ![w] = <<"answer">>]
        /\ busy' = IF counted THEN [busy EXCEPT ![a] = @ + 1] ELSE busy
        /\ holds' = [holds EXCEPT ![w] = counted]
    BY DEF Pick, Begin
  <1>2. ~holds[w] BY <1>1 DEF CountInv, Owed
  <1>3. /\ on'[w] = a /\ todo'[w] = <<"answer">> /\ holds'[w] = counted
        /\ \A v \in Worker \ {w} : on'[v] = on[v] /\ todo'[v] = todo[v] /\ holds'[v] = holds[v]
    BY <1>1 DEF CountInv, TypeOK
  <1>4. Owed' BY <1>3 DEF CountInv, Owed
  <1>5. CASE ~counted
    <2>1. UNCHANGED busy /\ UNCHANGED holds BY <1>1, <1>2, <1>5 DEF CountInv, TypeOK
    <2> QED BY <1>2, <1>3, <2>1, Uncounted
  <1>6. ASSUME counted, NEW b \in Account PROVE busy'[b] <= Cardinality(Holders(b)')
    <2>1. busy[b] \in Nat /\ busy[b] <= Cardinality(Holders(b))
      BY RotationAssumption DEF CountInv, TypeOK, NeverOvercounted, Holders
    <2>2. w \notin Holders(b) BY <1>2 DEF Holders
    <2>3. CASE b = a
      <3>1. Holders(b)' = Holders(b) \cup {w}
        <4> SUFFICES ASSUME NEW v \in Worker
                     PROVE  (on'[v] = b /\ holds'[v]) <=> ((on[v] = b /\ holds[v]) \/ v = w)
          BY DEF Holders
        <4> QED BY <1>3, <1>6, <2>3
      <3>2. Cardinality(Holders(b) \cup {w}) = Cardinality(Holders(b)) + 1
        BY <2>2, HoldersCount, FS_AddElement
      <3>3. busy'[b] = busy[b] + 1 BY <1>1, <1>6, <2>3 DEF CountInv, TypeOK
      <3>4. Cardinality(Holders(b)) \in Nat BY HoldersCount
      <3> QED BY <2>1, <3>1, <3>2, <3>3, <3>4
    <2>4. CASE b # a
      <3>1. Holders(b)' = Holders(b)
        <4> SUFFICES ASSUME NEW v \in Worker
                     PROVE  (on'[v] = b /\ holds'[v]) <=> (on[v] = b /\ holds[v])
          BY DEF Holders
        <4> QED BY <1>2, <1>3, <2>4
      <3>2. busy'[b] = busy[b] BY <1>1, <1>6, <2>4 DEF CountInv, TypeOK
      <3> QED BY <2>1, <3>1, <3>2
    <2> QED BY <2>3, <2>4
  <1>7. CASE counted BY <1>4, <1>6, <1>7 DEF CountInv, NeverOvercounted, Holders
  <1> QED BY <1>5, <1>7

LEMMA BeginCount ==
  ASSUME CountInv, TypeOK', NEW w \in Worker, NEW a, NEW m, NEW calls, Begin(w, a, m, calls),
         UNCHANGED <<busy, holds>>
  PROVE  CountInv'
  <1>1. todo[w] = <<>> /\ on' = [on EXCEPT ![w] = a] /\ todo' = [todo EXCEPT ![w] = calls]
    BY DEF Begin
  <1>2. ~holds[w] BY <1>1 DEF CountInv, Owed
  <1>3. \A v \in Worker \ {w} : on'[v] = on[v] /\ todo'[v] = todo[v]
    BY <1>1 DEF CountInv, TypeOK
  <1> QED BY <1>2, <1>3, Uncounted

LEMMA WorkCount == ASSUME CountInv, TypeOK', NEW w \in Worker, Work(w) PROVE CountInv'
  <1>1. CASE Answer(w) BY <1>1, AnswerCount
  <1>2. CASE Release(w) BY <1>2, ReleaseCount
  <1>3. CASE Verdict(w)
    <2>1. todo[w] = <<"verdict">> /\ (\E rest : Left(w, rest)) /\ UNCHANGED <<busy, holds>>
      BY <1>3 DEF Verdict, Answers, Keeps
    <2>2. todo[w] # <<>> /\ Head(todo[w]) = "verdict" BY <2>1
    <2> QED BY <2>1, <2>2, CallUncounted
  <1>4. ASSUME NEW c, c \notin {"answer", "release"}, Does(w, c), UNCHANGED <<busy, holds>>
        PROVE  CountInv'
    BY <1>4, CallUncounted DEF Does
  <1>5. CASE \/ Read(w) \/ Block(w) \/ Free(w) \/ Cool(w) \/ Hold(w) \/ Touch(w) \/ Fail(w)
             \/ CountFail(w) \/ Heal(w) \/ Clear(w) \/ Unheld(w) \/ Note(w) \/ Snapshot(w) \/ Drop(w)
             \/ Rewrite(w)
    <2>1. UNCHANGED <<busy, holds>> /\ \E c : c \notin {"answer", "release"} /\ Does(w, c)
      BY <1>5 DEF Read, Block, Free, Cool, Hold, Touch, Fail, CountFail, Heal, Clear, Unheld, Note,
                  Snapshot, Drop, Rewrite, Patches, Keeps
    <2> QED BY <2>1, <1>4
  <1>6. CASE Settle(w)
    <2>1. /\ UNCHANGED <<busy, holds>> /\ todo[w] # <<>> /\ Head(todo[w]) = "settle"
          /\ \E rest : Left(w, rest)
      BY <1>6 DEF Settle, Patches, Keeps, Does
    <2> QED BY <2>1, CallUncounted
  <1>7. CASE Unblock(w)
    <2>1. UNCHANGED <<busy, holds>> /\ Does(w, "unblock")
      BY <1>7 DEF Unblock, Patches, Keeps
    <2> QED BY <2>1, <1>4
  <1>8. CASE Reenable(w)
    <2>1. UNCHANGED <<busy, holds>> /\ Does(w, "reenable")
      BY <1>8 DEF Reenable, Patches, Keeps
    <2> QED BY <2>1, <1>4
  <1> QED BY <1>1, <1>2, <1>3, <1>5, <1>6, <1>7, <1>8 DEF Work

LEMMA CounterCount == ASSUME CountInv, TypeOK', NEW a \in Account, CounterEnds(a) PROVE CountInv'
  <1>1. busy' = [busy EXCEPT ![a] = 0] /\ UNCHANGED <<on, todo, holds>>
    BY DEF CounterEnds, job
  <1>2. \A b \in Account : Holders(b)' = Holders(b) BY <1>1 DEF Holders
  <1>3. ASSUME NEW b \in Account PROVE busy'[b] <= Cardinality(Holders(b)')
    <2>1. busy[b] <= Cardinality(Holders(b)) BY DEF CountInv, NeverOvercounted, Holders
    <2>2. Cardinality(Holders(b)) \in Nat BY HoldersCount
    <2>3. busy'[b] = IF b = a THEN 0 ELSE busy[b] BY <1>1 DEF CountInv, TypeOK
    <2> QED BY <1>2, <2>1, <2>2, <2>3
  <1>4. Owed' BY <1>1 DEF CountInv, Owed
  <1> QED BY <1>3, <1>4 DEF CountInv, NeverOvercounted, Holders

LEMMA StepCount == CountInv /\ TypeOK' /\ [Next]_vars => CountInv'
  <1> SUFFICES ASSUME CountInv, TypeOK', [Next]_vars PROVE CountInv' OBVIOUS
  <1>1. ASSUME NEW w \in Worker, Work(w) PROVE CountInv' BY <1>1, WorkCount
  <1>2. ASSUME NEW w \in Worker, NEW a \in Account, Remove(w, a) PROVE CountInv'
    BY <1>2, BeginCount DEF Remove
  <1>3. ASSUME NEW w \in Worker, NEW a \in Account, NEW m \in Model, Serve(w, a, m) PROVE CountInv'
    <2>1. PICK head \in BOOLEAN : Pick(w, a, m, head)
      BY <1>3 DEF Serve, Acquire, PickSticky, PickOfChain
    <2> QED BY <2>1, PickCount
  <1>4. ASSUME NEW w \in Worker, NEW a \in Account, NEW m \in Model, Probe(w, a, m) PROVE CountInv'
    BY <1>4, BeginCount DEF Probe
  <1>8. ASSUME NEW w \in Worker, NEW a \in Account, NEW m \in Model, Welcome(w, a, m)
        PROVE  CountInv'
    BY <1>8, BeginCount DEF Welcome
  <1>5. ASSUME NEW a \in Account, CounterEnds(a) PROVE CountInv' BY <1>5, CounterCount
  <1>6. ASSUME NEW a \in Account,
               \/ MarkExpired(a) \/ RenewalFails(a) \/ Renewed(a) \/ Enable(a) \/ Disable(a)
               \/ ClearCooldown(a) \/ BillingHealthy(a) \/ Import(a)
               \/ \E m \in Model : BlockEnds(a, m)
        PROVE  CountInv'
    <2>1. UNCHANGED <<busy, job, holds>>
      BY <1>6 DEF MarkExpired, RenewalFails, Renewed, Enable, Disable, ClearCooldown,
                  BillingHealthy, Import, BlockEnds, Event, Act, Happens
    <2> QED BY <2>1, Uncounted DEF job
  <1>7. CASE UNCHANGED vars BY <1>7, Uncounted DEF vars
  <1> QED BY <1>1, <1>2, <1>3, <1>4, <1>5, <1>6, <1>7, <1>8 DEF Next

LEMMA InitCount == Init => CountInv
  <1> SUFFICES ASSUME Init PROVE CountInv OBVIOUS
  <1>1. TypeOK BY InitInv DEF Inv
  <1>2. Owed BY DEF Init, Owed
  <1>3. \A a \in Account : busy[a] = 0 /\ Cardinality(Holders(a)) \in Nat
    BY HoldersCount DEF Init
  <1> QED BY <1>1, <1>2, <1>3 DEF CountInv, NeverOvercounted, Holders

-----------------------------------------------------------------------------
(* Theorems *)

\* Whatever requests, probes and deletions run at a time, each variable keeps
\* its type: in particular a row stays a row through a rewrite of the table,
\* and no in-flight counter falls below zero however often it is released.
THEOREM TypeCorrect == Spec => []TypeOK
  <1>1. Inv /\ [Next]_vars => Inv' BY StepGood DEF Good
  <1>2. Inv => TypeOK BY DEF Inv
  <1> QED BY InitInv, <1>1, <1>2, PTL DEF Spec

\* A cooldown ends with a successful probe, an act of the administrator, the end of
\* the account's registration or the loss of its row: StaysCooling, for any numbers
\* of everything.
THEOREM CooldownsStand == Spec => StaysCooling
  <1>1. Inv /\ [Next]_vars => Inv' BY StepGood DEF Good
  <1>2. Inv /\ [Next]_vars =>
          [\A a \in Account : ComesBack(a) => EndsCooldown(a)]_vars
    BY StepGood DEF Good
  <1> QED BY InitInv, <1>1, <1>2, PTL DEF Spec, StaysCooling

\* No account looks busier than it is: NeverOvercounted, for any numbers of
\* everything.  Not inductive by itself: a worker must never end, or begin
\* anew, while it still counts (Owed).
THEOREM CountersFall == Spec => []NeverOvercounted
  <1>1. CountInv /\ TypeOK' /\ [Next]_vars => CountInv' BY StepCount
  <1>2. CountInv => NeverOvercounted BY DEF CountInv
  <1> QED BY InitCount, TypeCorrect, <1>1, <1>2, PTL DEF Spec

-----------------------------------------------------------------------------
(***************************************************************************)
(* Replenish: the loop.                                                    *)
(***************************************************************************)

\* No two callers are in run_once while nothing but run_once starts a batch, and the one
\* that has found nothing running is right about it.
OneAsks ==
    alone => /\ running <= 1
             /\ \A c, d \in Caller : Checking(c) /\ Checking(d) => c = d
             /\ \A c \in Caller : pc[c] = "start" => running = 0

\* Threads that are accounted for.
Odd == left \cup doubled

\* A thread that loops and is not accounted for is the current one; while somebody is in
\* start_background there is none; and who is there with another is marked.
OneLoop == \A t \in Thread : Looping(t) /\ t \notin Odd => t = current
NoLoop == \A s \in Starter, t \in Thread : starting[s] # "none" /\ Looping(t) => t \in Odd
Beside == \A s, o \in Starter : starting[s] # "none" /\ starting[o] # "none" /\ s # o => s \in beside

LoopInv ==
    /\ running \in Nat
    /\ pc \in [Caller -> Places]
    /\ current \in Thread \cup {"none"}
    /\ starting \in [Starter -> {"none", "checked", "assigned"}]
    /\ OneAsks /\ OneLoop /\ NoLoop /\ Beside

LEMMA LoopInitially == ReplenishInit => LoopInv
BY DEF ReplenishInit, LoopInv, OneAsks, OneLoop, NoLoop, Beside, Looping, Checking, Caller, Places

\* What a caller does in run_once, seen from the loop's side: the administrator's run is
\* no thread of the loop, and a thread in run_once loops already.
LEMMA OwnPlace ==
    ASSUME LoopInv, NEW c \in Caller, NEW to \in Places, to # "made",
           c = "admin" \/ pc[c] \notin {"none", "made"}, Goto(c, to), UNCHANGED switches
    PROVE  /\ pc' \in [Caller -> Places]
           /\ current' \in Thread \cup {"none"}
           /\ starting' \in [Starter -> {"none", "checked", "assigned"}]
           /\ OneLoop' /\ NoLoop' /\ Beside'
<1> USE DEF LoopInv, switches
<1>1. pc' \in [Caller -> Places] /\ \A t \in Thread : t # c => pc'[t] = pc[t]
    BY DEF Goto, Caller
<1>2. \A t \in Thread : Looping(t)' => Looping(t)
    BY <1>1, ReplenishAssumption DEF Looping, Places
<1>3. OneLoop' /\ NoLoop'
    BY <1>2 DEF OneLoop, NoLoop, Odd
<1>4. Beside'
    BY DEF Beside
<1> QED BY <1>1, <1>3, <1>4

LEMMA CountKeeps ==
    ASSUME LoopInv, NEW c \in Caller, NEW fails \in BOOLEAN, Count(c, fails)
    PROVE  LoopInv'
<1>1. PICK to \in {"none", "wait", "busy"} : Goto(c, to)
    BY DEF Count, Returns
<1>2. UNCHANGED <<switches, running, alone>> /\ pc[c] = "count"
    BY DEF Count, Rest
<1>3. OneAsks'
    BY <1>1, <1>2 DEF LoopInv, OneAsks, Checking, Goto
<1>4. to \in Places /\ to # "made" /\ pc[c] \notin {"none", "made"}
    BY <1>2 DEF Places
<1> QED BY <1>1, <1>2, <1>3, <1>4, OwnPlace DEF LoopInv

LEMMA BusyKeeps ==
    ASSUME LoopInv, NEW c \in Caller, NEW fails \in BOOLEAN, Busy(c, fails)
    PROVE  LoopInv'
<1>1. PICK to \in {"none", "wait", "start"} :
         Goto(c, to) /\ (to = "start" => running = 0 \/ fails)
    BY DEF Busy, Returns, Idle
<1>2. UNCHANGED <<switches, running>> /\ pc[c] = "busy" /\ alone' = (alone /\ ~fails)
    BY DEF Busy, Rest
<1>3. OneAsks'
    BY <1>1, <1>2 DEF LoopInv, OneAsks, Checking, Goto
<1>4. to \in Places /\ to # "made" /\ pc[c] \notin {"none", "made"}
    BY <1>2 DEF Places
<1> QED BY <1>1, <1>2, <1>3, <1>4, OwnPlace DEF LoopInv

LEMMA LaunchKeeps ==
    ASSUME LoopInv, NEW c \in Caller, Launch(c)
    PROVE  LoopInv'
<1>1. PICK to \in {"none", "wait"} : Goto(c, to)
    BY DEF Launch, StartFails, StartBatch, Returns
<1>2. /\ UNCHANGED <<switches, alone>> /\ pc[c] = "start"
      /\ running' \in {running, running + 1}
    BY DEF Launch, StartFails, StartBatch, Rest
<1>3. OneAsks'
    BY <1>1, <1>2 DEF LoopInv, OneAsks, Checking, Goto
<1>4. to \in Places /\ to # "made" /\ pc[c] \notin {"none", "made"}
    BY <1>2 DEF Places
<1> QED BY <1>1, <1>2, <1>3, <1>4, OwnPlace DEF LoopInv

LEMMA WaitKeeps ==
    ASSUME LoopInv, NEW t \in Thread, Wait(t)
    PROVE  LoopInv'
<1>1. PICK to \in {"none", "wait", "count"} :
         Goto(t, to) /\ (to = "count" => alone' = (alone /\ NobodyElse(t)))
    BY DEF Wait, Top
<1>2. /\ UNCHANGED <<switches, running>> /\ pc[t] = "wait" /\ (alone' => alone)
    BY DEF Wait, Top, Rest
<1>3. t \in Caller
    BY DEF Caller
<1>4. OneAsks'
    BY <1>1, <1>2, <1>3 DEF LoopInv, OneAsks, Checking, Goto, NobodyElse
<1>5. to \in Places /\ to # "made" /\ pc[t] \notin {"none", "made"}
    BY <1>2 DEF Places
<1> QED BY <1>1, <1>2, <1>3, <1>4, <1>5, OwnPlace DEF LoopInv

LEMMA RunByHandKeeps ==
    ASSUME LoopInv, RunByHand
    PROVE  LoopInv'
<1>1. /\ Goto("admin", "count") /\ UNCHANGED <<switches, running>>
      /\ alone' = (alone /\ NobodyElse("admin"))
    BY DEF RunByHand, Rest
<1>2. "admin" \in Caller /\ "count" \in Places
    BY DEF Caller, Places
<1>3. OneAsks'
    BY <1>1, <1>2 DEF LoopInv, OneAsks, Checking, Goto, NobodyElse
<1> QED BY <1>1, <1>2, <1>3, OwnPlace DEF LoopInv

\* Who checks finds no loop that is not accounted for, and marks itself and the others.
LEMMA CheckKeeps ==
    ASSUME LoopInv, NEW s \in Starter, StartChecks(s)
    PROVE  LoopInv'
<1> DEFINE others == {o \in Starter : starting[o] # "none"}
<1>1. /\ starting[s] = "none" /\ ~Alive(current)
      /\ starting' = [starting EXCEPT ![s] = "checked"]
      /\ beside' = IF others = {} THEN beside ELSE beside \cup others \cup {s}
      /\ UNCHANGED <<running, alone, pc, current, left, doubled>>
    BY DEF StartChecks, Apart
<1>2. OneAsks' /\ OneLoop'
    BY <1>1 DEF LoopInv, OneAsks, OneLoop, Odd, Looping, Checking
<1>3. \A t \in Thread : Looping(t) => t \in Odd
    BY <1>1, ReplenishAssumption DEF LoopInv, OneLoop, Alive
<1>4. NoLoop'
    BY <1>1, <1>3 DEF NoLoop, Odd, Looping
<1>5. Beside'
    <2> SUFFICES ASSUME NEW a \in Starter, NEW o \in Starter,
                        starting'[a] # "none", starting'[o] # "none", a # o
                 PROVE  a \in beside'
        BY DEF Beside
    <2>1. \A x \in Starter : x # s => starting'[x] = starting[x]
        BY <1>1 DEF LoopInv
    <2>2. CASE a = s
        BY <1>1, <2>1, <2>2
    <2>3. CASE a # s
        BY <1>1, <2>1, <2>3
    <2> QED BY <2>2, <2>3
<1>6. starting' \in [Starter -> {"none", "checked", "assigned"}]
    BY <1>1 DEF LoopInv
<1> QED BY <1>1, <1>2, <1>4, <1>5, <1>6 DEF LoopInv

\* A new thread in _thread does not loop yet.
LEMMA AssignKeeps ==
    ASSUME LoopInv, NEW s \in Starter, StartAssigns(s)
    PROVE  LoopInv'
<1>1. PICK t \in Thread : ~Looping(t) /\ Goto(t, "made") /\ current' = t
    BY DEF StartAssigns
<1>2. /\ starting[s] = "checked" /\ starting' = [starting EXCEPT ![s] = "assigned"]
      /\ UNCHANGED <<running, alone, beside, left, doubled>>
    BY DEF StartAssigns, Apart
<1>3. /\ pc' \in [Caller -> Places] /\ pc'[t] = "made"
      /\ \A c \in Caller : c # t => pc'[c] = pc[c]
    BY <1>1 DEF LoopInv, Goto, Caller, Places
<1>4. \A u \in Thread : Looping(u)' => Looping(u)
    BY <1>3 DEF Looping, Caller
<1>5. \A u \in Thread : Looping(u)' => u \in Odd'
    BY <1>2, <1>4 DEF LoopInv, NoLoop, Odd
<1>6. OneLoop' /\ NoLoop'
    BY <1>5 DEF OneLoop, NoLoop
<1>7. Beside' /\ starting' \in [Starter -> {"none", "checked", "assigned"}]
    BY <1>2 DEF LoopInv, Beside
<1>8. OneAsks'
    BY <1>2, <1>3 DEF LoopInv, OneAsks, Checking
<1> QED BY <1>1, <1>2, <1>3, <1>6, <1>7, <1>8 DEF LoopInv

\* Who runs a thread alone is the last in start_background; who does not marks it.
LEMMA RunKeeps ==
    ASSUME LoopInv, NEW s \in Starter, StartRuns(s)
    PROVE  LoopInv'
<1>1. /\ starting[s] = "assigned" /\ starting' = [starting EXCEPT ![s] = "none"]
      /\ beside' = beside \ {s} /\ UNCHANGED <<running, alone, current>>
    BY DEF StartRuns, Apart
<1>2. Beside' /\ starting' \in [Starter -> {"none", "checked", "assigned"}]
    BY <1>1 DEF LoopInv, Beside
<1>3. \A o \in Starter : starting'[o] # "none" => starting[o] # "none" /\ o # s
    BY <1>1 DEF LoopInv
<1>4. CASE UNCHANGED <<pc, left, doubled>>
    <2>1. OneAsks' /\ OneLoop'
        BY <1>1, <1>4 DEF LoopInv, OneAsks, OneLoop, Odd, Looping, Checking
    <2>2. NoLoop'
        BY <1>3, <1>4 DEF LoopInv, NoLoop, Odd, Looping
    <2> QED BY <1>1, <1>2, <1>4, <2>1, <2>2 DEF LoopInv
<1>5. CASE ~UNCHANGED <<pc, left, doubled>>
    <2>1. /\ current \in Thread /\ pc[current] = "made" /\ Goto(current, "wait")
          /\ left' = left \ {current}
          /\ doubled' = IF s \in beside THEN doubled \cup {current} ELSE doubled \ {current}
        BY <1>5 DEF StartRuns, LoopInv
    <2>2. /\ pc' \in [Caller -> Places] /\ pc'[current] = "wait"
          /\ \A c \in Caller : c # current => pc'[c] = pc[c]
        BY <2>1 DEF LoopInv, Goto, Caller, Places
    <2>3. OneAsks'
        BY <1>1, <2>1, <2>2 DEF LoopInv, OneAsks, Checking
    <2>4. \A t \in Thread : Looping(t)' /\ t # current => t \in Odd /\ t \in Odd'
        <3> SUFFICES ASSUME NEW t \in Thread, Looping(t)', t # current
                     PROVE  t \in Odd /\ t \in Odd'
            OBVIOUS
        <3>1. Looping(t)
            BY <2>2 DEF Looping, Caller
        <3> QED BY <1>1, <2>1, <3>1 DEF LoopInv, NoLoop, Odd
    <2>5. OneLoop'
        BY <1>1, <2>4 DEF OneLoop
    <2>6. NoLoop'
        <3>1. CASE s \in beside
            BY <2>1, <2>4, <3>1 DEF NoLoop, Odd
        <3>2. CASE s \notin beside
            BY <1>1, <1>3, <3>2 DEF LoopInv, Beside, NoLoop
        <3> QED BY <3>1, <3>2
    <2> QED BY <1>1, <1>2, <2>2, <2>3, <2>5, <2>6 DEF LoopInv
<1> QED BY <1>4, <1>5

\* A stop lets go whatever thread there is.
LEMMA StopsKeep ==
    ASSUME LoopInv, Stop \/ Joined \/ Restart
    PROVE  LoopInv'
<1> USE ReplenishAssumption DEF LoopInv, Caller
<1>1. CASE Stop
    BY <1>1 DEF Stop, OneAsks, OneLoop, NoLoop, Beside, Odd, Looping, Checking, Alive
<1>2. CASE Joined
    BY <1>2 DEF Joined, OneAsks, OneLoop, NoLoop, Beside, Odd, Looping, Checking, Alive
<1>3. CASE Restart
    BY <1>3 DEF Restart, world, OneAsks, OneLoop, NoLoop, Beside, Looping, Checking, Places
<1> QED BY <1>1, <1>2, <1>3

\* Batches that end, or are started with the form, and what callers only read.
LEMMA WorldKeeps ==
    ASSUME LoopInv, UNCHANGED <<pc, switches>>,
           \/ UNCHANGED <<running, alone>>
           \/ running' = running + 1 /\ ~alone'
           \/ running > 0 /\ running' = running - 1 /\ UNCHANGED alone
    PROVE  LoopInv'
<1> USE DEF LoopInv, switches
<1>1. OneAsks'
    <2>1. running' <= running \/ ~alone'
        OBVIOUS
    <2>2. (alone' => alone) \/ ~alone'
        OBVIOUS
    <2>3. running' \in Nat /\ (running = 0 => running' = 0 \/ ~alone')
        OBVIOUS
    <2>4. \A c \in Caller : pc'[c] = pc[c]
        OBVIOUS
    <2> QED BY <2>1, <2>2, <2>3, <2>4 DEF OneAsks, Checking
<1>2. OneLoop' /\ NoLoop' /\ Beside'
    BY DEF OneLoop, NoLoop, Beside, Odd, Looping
<1> QED BY <1>1, <1>2

LEMMA LoopStep ==
    ASSUME LoopInv, [ReplenishNext]_replenishVars
    PROVE  LoopInv'
<1>1. ASSUME NEW t \in Thread, Loop(t) PROVE LoopInv'
    <2> t \in Caller
        BY DEF Caller
    <2> QED BY <1>1, WaitKeeps, CountKeeps, BusyKeeps, LaunchKeeps DEF Loop, RunOnce
<1>2. CASE RunOnce("admin")
    <2> "admin" \in Caller
        BY DEF Caller
    <2> QED BY <1>2, CountKeeps, BusyKeeps, LaunchKeeps DEF RunOnce
<1>3. CASE RunByHand
    BY <1>3, RunByHandKeeps
<1>4. CASE CoolingEnds \/ BatchEnds \/ PoolChanges \/ Switch \/ StartJob
    BY <1>4, WorldKeeps DEF CoolingEnds, BatchEnds, PoolChanges, Switch, StartJob, Rest
<1>5. CASE Stop \/ Joined \/ Restart
    BY <1>5, StopsKeep
<1>6. ASSUME NEW s \in Starter, Starts(s) PROVE LoopInv'
    BY <1>6, CheckKeeps, AssignKeeps, RunKeeps DEF Starts
<1>7. CASE UNCHANGED replenishVars
    BY <1>7, WorldKeeps DEF replenishVars
<1> QED BY <1>1, <1>2, <1>3, <1>4, <1>5, <1>6, <1>7 DEF ReplenishNext

\* Without a second caller or another start, however long batches last and cooldowns do
\* not, no batch is started beside one that runs (account_replenisher.py, run_once).
THEOREM NothingPilesUp == ReplenishSpec => []NoPileUp
<1>1. LoopInv => NoPileUp
    BY DEF LoopInv, OneAsks, NoPileUp
<1> QED BY <1>1, LoopInitially, LoopStep, PTL DEF ReplenishSpec

\* Starts in any number of threads, stops and stops that give up waiting leave one loop,
\* those that were let go and those of starts that met in start_background
\* (account_replenisher.py, start_background and stop_background).
THEOREM LoopsCounted == ReplenishSpec => []LoopsBounded
<1>1. ASSUME LoopInv PROVE LoopsBounded
    <2> DEFINE kept == {t \in Thread : Looping(t)} \ (left \cup doubled)
    <2>1. kept \subseteq {current}
        BY <1>1 DEF LoopInv, OneLoop, Odd
    <2>2. IsFiniteSet({current}) /\ Cardinality({current}) = 1
        BY FS_Singleton
    <2>3. Cardinality(kept) <= 1
        BY <2>1, <2>2, FS_Subset
    <2> QED BY <2>3 DEF LoopsBounded
<1> QED BY <1>1, LoopInitially, LoopStep, PTL DEF ReplenishSpec

-----------------------------------------------------------------------------
(***************************************************************************)
(* MailKeys: the key of a provider.                                        *)
(***************************************************************************)

Entries == Key \cup {"empty"}
Cells == Entries \cup {"absent"}
Config(mails, cells) == [mail : mails, active : cells, slot : [Named -> cells]]
AnyConfig == Config(Named \cup {"absent"}, Cells)
Jobs == [provider : Named \cup {"none"}, key : Entries, due : Entries \cup {"never"}]
Savings == [step : {"idle", "read", "write", "start"}, patch : AnyConfig, row : AnyConfig,
            job : Jobs, entered : [Named -> Cells]]

MailTypes ==
    /\ settings \in AnyConfig /\ saving \in [Saver -> Savings] /\ batch \in Jobs
    /\ typed \in [Named -> Entries \cup {"never"}]
    /\ \A s \in Saver : saving[s].step \in {"read", "write"} => saving[s].patch.mail \in Named

\* What was saved for a provider is in its slot.
SlotKept == \A p \in Provider : typed[p] \in Key => settings.slot[p] = typed[p]

\* A patch has what was entered, and for the other providers nothing or what is there.
PatchFits(c) ==
    \A p \in Provider :
       IF c.entered[p] \in Key THEN c.patch.slot[p] = c.entered[p]
       ELSE typed[p] \in Key => c.patch.slot[p] \in {typed[p], "empty", "absent"}

JobFits(j) == j.provider \in Provider /\ j.due \in Key => j.key = j.due

\* A request that saves, seen between its steps.
SaverFits(c) ==
    /\ c.step \in {"read", "write"} => PatchFits(c)
    /\ c.step = "write" => c.row = settings
    /\ JobFits(c.job)

OneSaves == \A s, o \in Saver : saving[s].step # "idle" /\ saving[o].step # "idle" => s = o
IdleSaves == \A s \in Saver : saving[s].step = "idle" => saving[s] = NotSaving

KeyInv ==
    /\ MailTypes /\ IdleSaves
    /\ ~spoiled => /\ SlotKept /\ OneSaves /\ JobFits(batch)
                   /\ \A s \in Saver : SaverFits(saving[s])

LEMMA NoEmptyKey == "empty" \notin Key /\ "absent" \notin Key /\ "never" \notin Key
BY MailKeysAssumption

LEMMA Defaults == Default \in Provider /\ Provider \subseteq Named /\ "absent" \notin Named
BY MailKeysAssumption DEF Named

LEMMA UnsavedType == Unsaved \in AnyConfig /\ NoBatch \in Jobs /\ NotSaving \in Savings
<1>1. Unsaved \in AnyConfig
    BY DEF Unsaved, AnyConfig, Config, Cells
<1>2. NoBatch \in Jobs
    BY DEF NoBatch, Jobs, Entries
<1>3. Unsaved.slot \in [Named -> Cells]
    BY DEF Unsaved, Cells
<1> QED BY <1>1, <1>2, <1>3 DEF NotSaving, Savings

LEMMA MailInitially == MailInit => KeyInv
<1> SUFFICES ASSUME MailInit PROVE KeyInv
    OBVIOUS
<1>1. MailTypes
    BY UnsavedType DEF MailInit, MailTypes, NotSaving
<1>2. IdleSaves
    BY DEF MailInit, IdleSaves
<1>3. SlotKept /\ OneSaves /\ JobFits(batch)
    BY NoEmptyKey, Defaults DEF MailInit, SlotKept, OneSaves, NotSaving, JobFits, NoBatch
<1>4. \A s \in Saver : SaverFits(saving[s])
    BY NoEmptyKey DEF MailInit, SaverFits, NotSaving, JobFits, NoBatch
<1> QED BY <1>1, <1>2, <1>3, <1>4 DEF KeyInv

\* Only the slot of a provider that needs no key changes, and the active key is a slot's.
LEMMA SanitizedKeeps ==
    ASSUME NEW mails, mails \subseteq Named, NEW cells, Key \subseteq cells,
           NEW c \in [mail : mails, active : Cells, slot : [Named -> cells]]
    PROVE  /\ Sanitized(c) \in Config(mails, cells)
           /\ Sanitized(c).mail = c.mail
           /\ \A p \in Provider : Sanitized(c).slot[p] = c.slot[p]
<1> DEFINE promoted == /\ c.mail \in Slotless /\ c.slot[c.mail] = "empty"
                       /\ c.active \in Takes[c.mail]
           slot == IF promoted THEN [c.slot EXCEPT ![c.mail] = c.active] ELSE c.slot
<1>1. Sanitized(c) = [c EXCEPT !.active = slot[c.mail], !.slot = slot]
    BY DEF Sanitized
<1>2. promoted => c.active \in cells
    BY MailKeysAssumption DEF Named
<1>3. slot \in [Named -> cells]
    BY <1>2
<1>4. \A p \in Provider : slot[p] = c.slot[p]
    BY MailKeysAssumption DEF Named
<1> HIDE DEF slot
<1> QED BY <1>1, <1>3, <1>4 DEF Config

LEMMA GivenType == \A v \in Cells : Given(v) \in Entries /\ (v \in Key => Given(v) = v)
BY NoEmptyKey DEF Given, Cells, Entries

\* The environment fills no slot that has a key.
LEMMA LoadedKeeps ==
    ASSUME NEW c \in AnyConfig
    PROVE  /\ Loaded(c) \in Config(Named, Entries)
           /\ \A p \in Provider : c.slot[p] \in Key => Loaded(c).slot[p] = c.slot[p]
<1> DEFINE given == [mail |-> IF c.mail = "absent" THEN Default ELSE c.mail,
                     active |-> Given(c.active), slot |-> [p \in Named |-> Given(c.slot[p])]]
           config == Sanitized(given)
           fromEnv == /\ config.slot[Default] = "empty" /\ EnvKeys[Default] \in Takes[Default]
           more == [config EXCEPT !.slot[Default] = EnvKeys[Default]]
<1>1. Loaded(c) = IF fromEnv THEN Sanitized(more) ELSE config
    BY DEF Loaded
<1>2. given \in [mail : Named, active : Cells, slot : [Named -> Entries]]
    BY GivenType, Defaults DEF AnyConfig, Config, Cells
<1>3. \A p \in Provider : c.slot[p] \in Key => given.slot[p] = c.slot[p]
    BY GivenType, Defaults DEF AnyConfig, Config
<1> HIDE DEF given
<1>4. /\ config \in Config(Named, Entries)
      /\ \A p \in Provider : config.slot[p] = given.slot[p]
    BY <1>2, SanitizedKeeps DEF Entries
<1> HIDE DEF config
<1>5. fromEnv => more \in [mail : Named, active : Cells, slot : [Named -> Entries]]
    BY <1>4, MailKeysAssumption, Defaults DEF Config, Cells, Entries
<1>6. fromEnv => \A p \in Provider : config.slot[p] \in Key => more.slot[p] = config.slot[p]
    BY <1>4, NoEmptyKey, Defaults DEF Config
<1> HIDE DEF more
<1>7. fromEnv => /\ Sanitized(more) \in Config(Named, Entries)
                 /\ \A p \in Provider : Sanitized(more).slot[p] = more.slot[p]
    BY <1>5, SanitizedKeeps DEF Entries
<1> QED BY <1>1, <1>3, <1>4, <1>6, <1>7

\* A form changes the slot of its provider only, and with a key only to that.
LEMMA MergedKeeps ==
    ASSUME NEW c \in Config(Named, Entries), NEW p \in Named, NEW entry \in Entries
    PROVE  /\ Merged(c, p, entry) \in Config(Named, Entries) /\ Merged(c, p, entry).mail = p
           /\ \A q \in Named : q # p => Merged(c, p, entry).slot[q] = c.slot[q]
           /\ entry \in Key => Merged(c, p, entry).slot[p] = entry \/ p \notin Provider
           /\ entry \notin Key /\ p \in Provider /\ c.slot[p] \in Key
                 => Merged(c, p, entry).slot[p] = c.slot[p]
<1> DEFINE active == IF entry \in Key THEN entry ELSE c.active
           given == [c.slot EXCEPT ![p] = IF entry \in Key \/ p \in Slotless THEN entry ELSE @]
           slot == [given EXCEPT ![p] = Fill(p, given, active)]
           shown == IF slot[p] # "empty" THEN slot[p]
                    ELSE IF p \in Mirroring THEN active ELSE "empty"
<1>1. Merged(c, p, entry) = [mail |-> p, slot |-> slot, active |-> shown]
    BY DEF Merged
<1>2. active \in Entries /\ given \in [Named -> Entries]
    BY DEF Config, Entries
<1>3. Fill(p, given, active) \in Entries
    BY <1>2 DEF Fill
<1>4. slot \in [Named -> Entries] /\ slot[p] = Fill(p, given, active)
    BY <1>2, <1>3
<1>5. \A q \in Named : q # p => slot[q] = c.slot[q]
    BY DEF Config
<1>6. given[p] \in Key => slot[p] = given[p]
    BY <1>4, NoEmptyKey DEF Fill
<1>7. /\ entry \in Key => given[p] = entry
      /\ entry \notin Key /\ p \in Provider => given[p] = c.slot[p]
    BY MailKeysAssumption DEF Config
<1> HIDE DEF slot, given, active
<1>8. shown \in Entries
    BY <1>2, <1>4 DEF Entries
<1> HIDE DEF shown
<1> QED BY <1>1, <1>4, <1>5, <1>6, <1>7, <1>8 DEF Config

\* A key in the patch is written; where there is none the key of the row stays.
LEMMA PatchedKeeps ==
    ASSUME NEW old \in AnyConfig, NEW new \in AnyConfig, new.mail \in Named
    PROVE  /\ Patched(old, new) \in AnyConfig
           /\ \A p \in Provider :
                 Patched(old, new).slot[p] = IF new.slot[p] \in Key THEN new.slot[p]
                                             ELSE Given(old.slot[p])
<1> DEFINE slot == [p \in Named |->
                      IF new.slot[p] \in Key \/ (p \in Slotless /\ new.slot[p] = "empty")
                      THEN new.slot[p] ELSE Given(old.slot[p])]
           config == [mail |-> new.mail,
                      active |-> IF new.active \in Key THEN new.active ELSE Given(old.active),
                      slot |-> slot]
<1>1. Patched(old, new) = Sanitized(config)
    BY DEF Patched
<1>2. slot \in [Named -> Entries]
    BY GivenType DEF AnyConfig, Config, Entries
<1>3. config.active \in Cells
    BY GivenType DEF AnyConfig, Config, Cells, Entries
<1>4. \A p \in Provider : slot[p] = IF new.slot[p] \in Key THEN new.slot[p]
                                    ELSE Given(old.slot[p])
    BY MailKeysAssumption DEF Named
<1> HIDE DEF slot
<1>5. config \in [mail : Named, active : Cells, slot : [Named -> Entries]] /\ config.slot = slot
    BY <1>2, <1>3
<1> HIDE DEF config
<1>6. /\ Sanitized(config) \in Config(Named, Entries)
      /\ \A p \in Provider : Sanitized(config).slot[p] = config.slot[p]
    BY <1>5, SanitizedKeeps DEF Entries
<1>7. Sanitized(config) \in AnyConfig
    BY <1>6 DEF AnyConfig, Config, Cells
<1> QED BY <1>1, <1>4, <1>5, <1>6, <1>7

\* A request that begins leaves nothing half done by another, unless it is marked.
LEMMA BeginsKeeps ==
    ASSUME KeyInv, NEW s \in Saver, NEW unread \in BOOLEAN, Begins(s, unread),
           NEW c \in Savings, saving' = [saving EXCEPT ![s] = c],
           c.step = "read", c.patch.mail \in Named,
           ~spoiled' => PatchFits(c) /\ JobFits(c.job)
    PROVE  KeyInv'
<1>1. /\ UNCHANGED <<settings, batch, typed>> /\ saving[s] = NotSaving
      /\ spoiled' = (spoiled \/ Overlaps(s) \/ unread)
    BY DEF Begins
<1>2. \A o \in Saver : saving'[o] = IF o = s THEN c ELSE saving[o]
    BY DEF KeyInv, MailTypes
<1>3. MailTypes' /\ IdleSaves'
    BY <1>1, <1>2 DEF KeyInv, MailTypes, IdleSaves
<1>4. ASSUME ~spoiled'
      PROVE  (SlotKept /\ OneSaves /\ JobFits(batch) /\ \A o \in Saver : SaverFits(saving[o]))'
    <2>1. \A o \in Saver \ {s} : saving[o] = NotSaving
        BY <1>1, <1>4 DEF Overlaps
    <2>2. SlotKept' /\ JobFits(batch)'
        BY <1>1, <1>4 DEF KeyInv, SlotKept, JobFits
    <2>3. OneSaves'
        BY <1>2, <2>1 DEF OneSaves, NotSaving
    <2>4. PatchFits(c)' /\ JobFits(c.job)'
        BY <1>1, <1>4 DEF PatchFits, JobFits
    <2>5. \A o \in Saver : SaverFits(saving[o])'
        BY <1>2, <2>1, <2>4, NoEmptyKey DEF SaverFits, NotSaving, JobFits, NoBatch
    <2> QED BY <2>2, <2>3, <2>5
<1> QED BY <1>3, <1>4 DEF KeyInv

LEMMA SaveKeeps ==
    ASSUME KeyInv, NEW s \in Saver, NEW p \in Named, NEW keys \in Forms, Save(s, p, keys)
    PROVE  KeyInv'
<1> DEFINE c == [step |-> "read", row |-> Unsaved, job |-> NoBatch, entered |-> keys,
                 patch |-> [mail |-> p, active |-> keys[p], slot |-> keys]]
<1>1. Begins(s, FALSE) /\ saving' = [saving EXCEPT ![s] = c]
    BY DEF Save
<1>2. keys \in [Named -> Cells] /\ keys \in [Named -> Entries]
    BY DEF Forms, Cells, Entries
<1>3. c.patch \in AnyConfig
    BY <1>2 DEF AnyConfig, Config
<1>4. c \in Savings
    BY <1>2, <1>3, UnsavedType DEF Savings
<1>5. PatchFits(c)
    BY <1>2, Defaults DEF PatchFits, Entries
<1>6. JobFits(c.job)
    BY NoEmptyKey DEF JobFits, NoBatch
<1>7. c.step = "read" /\ c.patch.mail \in Named
    OBVIOUS
<1> HIDE DEF c
<1> QED BY <1>1, <1>4, <1>5, <1>6, <1>7, BeginsKeeps

\* The form of a start: what is merged keeps the keys that were saved, and the batch gets
\* the one that is due.
LEMMA StartFormKeeps ==
    ASSUME KeyInv, NEW s \in Saver, NEW p \in Named, NEW unread \in BOOLEAN,
           NEW entry \in Takes[p] \cup {"empty"}, StartForm(s, p, entry, unread)
    PROVE  KeyInv'
<1> DEFINE stored == IF unread THEN Unsaved ELSE settings
           config == Merged(Loaded(stored), p, entry)
           entered == [q \in Named |-> IF q = p THEN entry ELSE "absent"]
           j == [provider |-> p, key |-> KeyFor(p, config),
                 due |-> IF entry \in Key THEN entry ELSE typed[p]]
           c == [step |-> "read", row |-> Unsaved, entered |-> entered,
                 patch |-> ForPersist(config), job |-> j]
<1>1. Begins(s, unread) /\ saving' = [saving EXCEPT ![s] = c]
    BY DEF StartForm
<1>2. stored \in AnyConfig /\ entry \in Entries
    BY UnsavedType, MailKeysAssumption DEF KeyInv, MailTypes, Entries
<1>3. /\ Loaded(stored) \in Config(Named, Entries)
      /\ \A q \in Provider : stored.slot[q] \in Key => Loaded(stored).slot[q] = stored.slot[q]
    BY <1>2, LoadedKeeps
<1>4. /\ config \in Config(Named, Entries) /\ config.mail = p
      /\ \A q \in Named : q # p => config.slot[q] = Loaded(stored).slot[q]
      /\ entry \in Key => config.slot[p] = entry \/ p \notin Provider
      /\ entry \notin Key /\ p \in Provider /\ Loaded(stored).slot[p] \in Key
            => config.slot[p] = Loaded(stored).slot[p]
    BY <1>2, <1>3, MergedKeeps
<1>5. ASSUME ~spoiled', NEW q \in Provider, typed[q] \in Key, q # p \/ entry \notin Key
      PROVE  config.slot[q] = typed[q]
    <2>1. ~spoiled /\ stored = settings
        BY <1>1, <1>5 DEF Begins
    <2>2. stored.slot[q] = typed[q]
        BY <1>5, <2>1 DEF KeyInv, SlotKept
    <2>3. Loaded(stored).slot[q] = typed[q]
        BY <1>3, <1>5, <2>2
    <2> HIDE DEF config, stored
    <2> QED BY <1>4, <1>5, <2>3, Defaults
<1> HIDE DEF config
<1>6. ForPersist(config) \in AnyConfig /\ ForPersist(config).mail = p
    BY <1>4 DEF ForPersist, AnyConfig, Config, Cells
<1>7. \A q \in Named : ForPersist(config).slot[q] \in {config.slot[q], "absent"}
    BY DEF ForPersist
<1>8. ForPersist(config).slot[p] = config.slot[p]
    BY <1>4 DEF ForPersist
<1>9. /\ KeyFor(p, config) \in Entries
      /\ config.slot[p] \in Key => KeyFor(p, config) = config.slot[p]
    BY <1>4, NoEmptyKey, Defaults DEF KeyFor, Config, Entries
<1>10. j \in Jobs
    BY <1>2, <1>9 DEF Jobs, KeyInv, MailTypes, Entries
<1>11. entered \in [Named -> Cells]
    BY <1>2 DEF Cells
<1>12. c \in Savings /\ c.step = "read" /\ c.patch.mail \in Named
    <2> HIDE DEF j, entered
    <2> QED BY <1>6, <1>10, <1>11, UnsavedType DEF Savings
<1>13. ASSUME ~spoiled' PROVE PatchFits(c)
    <2> SUFFICES ASSUME NEW q \in Provider
                 PROVE  IF entered[q] \in Key THEN ForPersist(config).slot[q] = entered[q]
                        ELSE typed[q] \in Key =>
                                ForPersist(config).slot[q] \in {typed[q], "empty", "absent"}
        BY DEF PatchFits
    <2>1. q \in Named /\ entered[q] = IF q = p THEN entry ELSE "absent"
        BY Defaults
    <2>2. entered[q] \in Key => q = p /\ entry \in Key
        BY <2>1, NoEmptyKey
    <2>3. CASE entered[q] \in Key
        BY <1>4, <1>8, <2>1, <2>2, <2>3
    <2>4. CASE entered[q] \notin Key
        BY <1>5, <1>7, <1>13, <2>1, <2>4
    <2> QED BY <2>3, <2>4
<1>14. ASSUME ~spoiled' PROVE JobFits(j)
    BY <1>4, <1>5, <1>9, <1>14 DEF JobFits
<1> HIDE DEF j, entered
<1>15. c.job = j
    OBVIOUS
<1> HIDE DEF c
<1> QED BY <1>1, <1>12, <1>13, <1>14, <1>15, BeginsKeeps

LEMMA SaveReadsKeeps ==
    ASSUME KeyInv, NEW s \in Saver, NEW unread \in BOOLEAN, SaveReads(s, unread)
    PROVE  KeyInv'
<1>1. /\ saving[s].step = "read"
      /\ spoiled' = (spoiled \/ unread) /\ UNCHANGED <<settings, batch, typed>>
    BY DEF SaveReads
<1>2. saving[s] \in Savings /\ (IF unread THEN Unsaved ELSE settings) \in AnyConfig
    BY UnsavedType DEF KeyInv, MailTypes
<1>3. PICK c \in Savings :
         /\ saving' = [saving EXCEPT ![s] = c]
         /\ c.step = "write" /\ c.row = (IF unread THEN Unsaved ELSE settings)
         /\ c.patch = saving[s].patch /\ c.entered = saving[s].entered /\ c.job = saving[s].job
    <2> DEFINE read == IF unread THEN Unsaved ELSE settings
    <2>1. read \in AnyConfig
        BY <1>2
    <2>2. saving' = [saving EXCEPT ![s] = [saving[s] EXCEPT !.step = "write", !.row = read]]
        BY DEF SaveReads, KeyInv, MailTypes
    <2> HIDE DEF read
    <2>3. [saving[s] EXCEPT !.step = "write", !.row = read] \in Savings
        BY <1>2, <2>1 DEF Savings
    <2> QED BY <1>2, <2>2, <2>3 DEF Savings, read
<1>4. \A o \in Saver : saving'[o] = IF o = s THEN c ELSE saving[o]
    BY <1>3 DEF KeyInv, MailTypes
<1>5. MailTypes' /\ IdleSaves'
    BY <1>1, <1>3, <1>4 DEF KeyInv, MailTypes, IdleSaves
<1>6. ASSUME ~spoiled'
      PROVE  (SlotKept /\ OneSaves /\ JobFits(batch) /\ \A o \in Saver : SaverFits(saving[o]))'
    <2>1. ~spoiled /\ ~unread
        BY <1>1, <1>6
    <2>2. SlotKept' /\ JobFits(batch)' /\ OneSaves'
        BY <1>1, <1>4, <2>1 DEF KeyInv, SlotKept, JobFits, OneSaves
    <2>3. SaverFits(c)'
        BY <1>1, <1>3, <2>1 DEF KeyInv, SaverFits, PatchFits, JobFits
    <2>4. \A o \in Saver : SaverFits(saving[o])'
        BY <1>1, <1>4, <2>1, <2>3 DEF KeyInv, SaverFits, PatchFits, JobFits
    <2> QED BY <2>2, <2>4
<1> QED BY <1>5, <1>6 DEF KeyInv

\* A request that has saved, or could not, has only its batch left to start.
LEMMA ThenKeeps ==
    ASSUME KeyInv, NEW s \in Saver, saving[s].step = "write", Then(s), UNCHANGED spoiled,
           settings' \in AnyConfig, typed' \in [Named -> Entries \cup {"never"}],
           UNCHANGED batch, ~spoiled => SlotKept'
    PROVE  KeyInv'
<1> DEFINE c == IF saving[s].job = NoBatch THEN NotSaving
                ELSE [NotSaving EXCEPT !.step = "start", !.job = saving[s].job]
<1>1. saving' = [saving EXCEPT ![s] = c]
    BY DEF Then, KeyInv, MailTypes
<1>2. saving[s] \in Savings
    BY DEF KeyInv, MailTypes
<1>3. /\ c \in Savings /\ c.step \in {"idle", "start"} /\ c.job = saving[s].job
      /\ c.step = "idle" => c = NotSaving
    BY <1>2, UnsavedType DEF Savings, NotSaving
<1> HIDE DEF c
<1>4. \A o \in Saver : saving'[o] = IF o = s THEN c ELSE saving[o]
    BY <1>1 DEF KeyInv, MailTypes
<1>5. MailTypes' /\ IdleSaves'
    BY <1>1, <1>3, <1>4 DEF KeyInv, MailTypes, IdleSaves
<1>6. ASSUME ~spoiled'
      PROVE  (SlotKept /\ OneSaves /\ JobFits(batch) /\ \A o \in Saver : SaverFits(saving[o]))'
    <2>1. ~spoiled
        BY <1>6
    <2>2. \A o \in Saver : o # s => saving[o].step = "idle"
        BY <2>1 DEF KeyInv, OneSaves
    <2>3. OneSaves' /\ JobFits(batch)'
        BY <1>4, <2>1, <2>2 DEF KeyInv, OneSaves, JobFits
    <2>4. \A o \in Saver : SaverFits(saving[o])'
        BY <1>3, <1>4, <2>1, <2>2 DEF KeyInv, SaverFits, JobFits
    <2> QED BY <2>1, <2>3, <2>4
<1> QED BY <1>5, <1>6 DEF KeyInv

LEMMA SaveWritesKeeps ==
    ASSUME KeyInv, NEW s \in Saver, SaveWrites(s)
    PROVE  KeyInv'
<1> DEFINE c == saving[s]
           now == [p \in Named |-> IF \/ c.entered[p] \in Key
                                      \/ p \in Slotless /\ c.entered[p] = "empty"
                                   THEN c.entered[p] ELSE typed[p]]
<1>1. /\ c.step = "write" /\ Then(s) /\ UNCHANGED <<batch, spoiled>>
      /\ settings' = Patched(c.row, c.patch) /\ typed' = now
    BY DEF SaveWrites
<1>2. c \in Savings /\ c.patch.mail \in Named
    BY <1>1 DEF KeyInv, MailTypes
<1> HIDE DEF c
<1>3. now \in [Named -> Entries \cup {"never"}]
    BY DEF KeyInv, MailTypes, Entries
<1>4. c.row \in AnyConfig /\ c.patch \in AnyConfig
    BY <1>2 DEF Savings
<1>5. /\ settings' \in AnyConfig
      /\ \A p \in Provider : settings'.slot[p] = IF c.patch.slot[p] \in Key THEN c.patch.slot[p]
                                                 ELSE Given(c.row.slot[p])
    BY <1>1, <1>2, <1>4, PatchedKeeps
<1>6. ASSUME ~spoiled PROVE SlotKept'
    <2> SUFFICES ASSUME NEW p \in Provider, now[p] \in Key
                 PROVE  settings'.slot[p] = now[p]
        BY <1>1 DEF SlotKept
    <2>1. PatchFits(c) /\ c.row = settings
        BY <1>1, <1>6 DEF KeyInv, SaverFits, c
    <2>2. p \in Named /\ p \notin Slotless
        BY MailKeysAssumption DEF Named
    <2>3. CASE c.entered[p] \in Key
        BY <1>5, <2>1, <2>2, <2>3 DEF PatchFits
    <2>4. CASE c.entered[p] \notin Key
        <3>1. now[p] = typed[p] /\ typed[p] \in Key
            BY <2>2, <2>4
        <3>2. c.patch.slot[p] \in {typed[p], "empty", "absent"}
            BY <2>1, <2>4, <3>1 DEF PatchFits
        <3>3. settings.slot[p] = typed[p] /\ settings.slot[p] \in Cells
            BY <1>6, <3>1 DEF KeyInv, SlotKept, Cells, Entries
        <3> QED BY <1>5, <2>1, <3>1, <3>2, <3>3, NoEmptyKey, GivenType
    <2> QED BY <2>3, <2>4
<1> QED BY <1>1, <1>3, <1>5, <1>6, ThenKeeps DEF c

LEMMA SaveFailsKeeps ==
    ASSUME KeyInv, NEW s \in Saver, SaveFails(s)
    PROVE  KeyInv'
<1>1. /\ saving[s].step = "write" /\ Then(s)
      /\ UNCHANGED <<settings, batch, typed, spoiled>>
    BY DEF SaveFails
<1>2. settings' \in AnyConfig /\ typed' \in [Named -> Entries \cup {"never"}]
    BY <1>1 DEF KeyInv, MailTypes
<1>3. ~spoiled => SlotKept'
    BY <1>1 DEF KeyInv, SlotKept
<1> QED BY <1>1, <1>2, <1>3, ThenKeeps

\* A new batch that fits is all that changes.
LEMMA ReceivedType == \A k \in Entries : Received(k) \in Entries /\ (k \in Key => Received(k) = k)
BY MailKeysAssumption, NoEmptyKey DEF Received, Entries

LEMMA StartJobsKeeps ==
    ASSUME KeyInv, NEW s \in Saver, StartJobs(s)
    PROVE  KeyInv'
<1>1. /\ saving[s].step = "start" /\ saving' = [saving EXCEPT ![s] = NotSaving]
      /\ UNCHANGED <<settings, typed, spoiled>>
      /\ batch' \in {batch, [saving[s].job EXCEPT !.key = Received(@)]}
    BY DEF StartJobs
<1>2. saving[s].job \in Jobs
    BY DEF KeyInv, MailTypes, Savings
<1>3. batch' \in Jobs
    BY <1>1, <1>2, ReceivedType DEF KeyInv, MailTypes, Jobs
<1>4. \A o \in Saver : saving'[o] = IF o = s THEN NotSaving ELSE saving[o]
    BY <1>1 DEF KeyInv, MailTypes
<1>5. MailTypes' /\ IdleSaves'
    BY <1>1, <1>3, <1>4, UnsavedType DEF KeyInv, MailTypes, IdleSaves, NotSaving
<1>6. ASSUME ~spoiled'
      PROVE  (SlotKept /\ OneSaves /\ JobFits(batch) /\ \A o \in Saver : SaverFits(saving[o]))'
    <2>1. ~spoiled
        BY <1>1, <1>6
    <2>2. JobFits(batch) /\ JobFits(saving[s].job)
        BY <2>1 DEF KeyInv, SaverFits
    <2>3. JobFits(batch)'
        BY <1>1, <1>2, <2>2, ReceivedType DEF JobFits, Jobs
    <2>4. SlotKept' /\ OneSaves'
        BY <1>1, <1>4, <2>1 DEF KeyInv, SlotKept, OneSaves, NotSaving
    <2>5. \A o \in Saver : SaverFits(saving[o])'
        BY <1>1, <1>4, <2>1, NoEmptyKey
        DEF KeyInv, SaverFits, PatchFits, JobFits, NotSaving, NoBatch
    <2> QED BY <2>3, <2>4, <2>5
<1> QED BY <1>5, <1>6 DEF KeyInv

\* The sidecar reads the key of the selected provider from its slot.
LEMMA NormalizedKeeps ==
    ASSUME NEW c \in AnyConfig, NEW env \in [Provider -> Entries]
    PROVE  LET n == Normalized(c, env)
           IN  /\ n \in Config(Named, Cells) /\ n.active \in Entries
               /\ n.mail = IF c.mail = "absent" THEN Default ELSE c.mail
               /\ \A p \in Provider : c.slot[p] \in Key => n.slot[p] = c.slot[p]
               /\ n.mail \in Provider => n.active = n.slot[n.mail]
<1> DEFINE mail == IF c.mail = "absent" THEN Default ELSE c.mail
           own == KeySlot(mail)
           filled == [p \in Named |-> IF p \in Slotless THEN c.slot[p]
                                      ELSE Picked(c.slot[p], env[p])]
           slot == [filled EXCEPT ![own] = IF @ = "empty" THEN Picked(c.active, env[Default]) ELSE @]
<1>1. Normalized(c, env) = [mail |-> mail, active |-> slot[own], slot |-> slot]
    BY DEF Normalized
<1>2. mail \in Named /\ own \in Provider /\ (mail \in Provider => own = mail)
    BY Defaults DEF AnyConfig, Config, KeySlot
<1> HIDE DEF mail, own
<1>3. \A v \in Cells : \A k \in Entries : Picked(v, k) \in Entries /\ (v # "absent" => Picked(v, k) = v)
    BY DEF Picked, Cells
<1>4. /\ filled \in [Named -> Cells] /\ filled[own] \in Entries
      /\ \A p \in Provider : c.slot[p] \in Key => filled[p] = c.slot[p]
    <2>1. \A p \in Provider : c.slot[p] \in Cells /\ env[p] \in Entries /\ p \in Named /\ p \notin Slotless
        BY MailKeysAssumption DEF Named, AnyConfig, Config
    <2>2. \A p \in Provider : filled[p] = Picked(c.slot[p], env[p])
        BY <2>1
    <2>3. \A p \in Slotless : p \in Named /\ filled[p] \in Cells
        BY DEF AnyConfig, Config, Named
    <2>4. \A p \in Provider : filled[p] \in Entries
        BY <1>3, <2>1, <2>2
    <2>5. filled \in [Named -> Cells]
        <3>1. \A p \in Named : filled[p] \in Cells
            BY <2>3, <2>4 DEF Named, Cells
        <3> QED BY <3>1
    <2>6. \A p \in Provider : c.slot[p] \in Key => filled[p] = c.slot[p]
        BY <1>3, <2>1, <2>2, NoEmptyKey
    <2> QED BY <1>2, <2>4, <2>5, <2>6
<1> HIDE DEF filled
<1>5. /\ slot \in [Named -> Cells] /\ slot[own] \in Entries
      /\ \A p \in Provider : filled[p] \in Key => slot[p] = filled[p]
    <2>1. own \in Named /\ Picked(c.active, env[Default]) \in Entries
        BY <1>2, <1>3, Defaults DEF AnyConfig, Config
    <2>2. \A p \in Named : p # own => slot[p] = filled[p]
        BY <1>4
    <2>3. slot[own] = IF filled[own] = "empty" THEN Picked(c.active, env[Default]) ELSE filled[own]
        BY <1>4, <2>1
    <2>4. slot[own] \in Entries
        BY <1>4, <2>1, <2>3
    <2>5. slot \in [Named -> Cells]
        BY <1>4, <2>1, <2>2, <2>4 DEF Cells
    <2> HIDE DEF slot
    <2> QED BY <2>2, <2>3, <2>4, <2>5, NoEmptyKey, Defaults
<1> HIDE DEF slot
<1>6. mail = IF c.mail = "absent" THEN Default ELSE c.mail
    BY DEF mail
<1>7. slot[own] \in Cells
    BY <1>5 DEF Cells
<1> QED BY <1>1, <1>2, <1>4, <1>5, <1>6, <1>7 DEF Config

LEMMA ReplenishBatchKeeps ==
    ASSUME KeyInv, ReplenishBatch
    PROVE  KeyInv'
<1> DEFINE once == Normalized(settings, EnvKeys)
<1>1. /\ UNCHANGED <<settings, saving, typed, spoiled>>
      /\ batch' = [provider |-> Resolved.mail, key |-> Received(Resolved.active),
                   due |-> typed[Resolved.mail]]
    BY DEF ReplenishBatch
<1>2. settings \in AnyConfig /\ EnvKeys \in [Provider -> Entries] /\ NoEnv \in [Provider -> Entries]
    BY MailKeysAssumption DEF KeyInv, MailTypes, Entries, NoEnv
<1>3. /\ once \in Config(Named, Cells)
      /\ \A p \in Provider : settings.slot[p] \in Key => once.slot[p] = settings.slot[p]
    BY <1>2, NormalizedKeeps
<1> HIDE DEF once
<1>4. once \in AnyConfig
    BY <1>3 DEF AnyConfig, Config
<1>5. /\ Resolved \in Config(Named, Cells) /\ Resolved.active \in Entries
      /\ \A p \in Provider : once.slot[p] \in Key => Resolved.slot[p] = once.slot[p]
      /\ Resolved.mail \in Provider => Resolved.active = Resolved.slot[Resolved.mail]
    BY <1>2, <1>4, NormalizedKeeps DEF Resolved, once
<1>6. Resolved.mail \in Named
    BY <1>5 DEF Config
<1>7. batch' \in Jobs
    BY <1>1, <1>5, <1>6, ReceivedType DEF Jobs, KeyInv, MailTypes
<1>8. ~spoiled => JobFits(batch)'
    <2> SUFFICES ASSUME ~spoiled, Resolved.mail \in Provider, typed[Resolved.mail] \in Key
                 PROVE  Received(Resolved.active) = typed[Resolved.mail]
        BY <1>1 DEF JobFits
    <2>1. settings.slot[Resolved.mail] = typed[Resolved.mail]
        BY DEF KeyInv, SlotKept
    <2>2. Resolved.active = typed[Resolved.mail]
        BY <1>3, <1>5, <2>1
    <2> QED BY <1>5, <2>2, ReceivedType
<1> QED BY <1>1, <1>7, <1>8
        DEF KeyInv, MailTypes, IdleSaves, SlotKept, OneSaves, SaverFits, PatchFits, JobFits

LEMMA MailStep ==
    ASSUME KeyInv, [MailNext]_mailVars
    PROVE  KeyInv'
<1>1. CASE ReplenishBatch
    BY <1>1, ReplenishBatchKeeps
<1>2. ASSUME NEW s \in Saver, NEW p \in Named, NEW keys \in Forms, Save(s, p, keys)
      PROVE  KeyInv'
    BY <1>2, SaveKeeps
<1>3. ASSUME NEW s \in Saver, NEW p \in Named, NEW unread \in BOOLEAN,
             NEW entry \in Takes[p] \cup {"empty"}, StartForm(s, p, entry, unread)
      PROVE  KeyInv'
    BY <1>3, StartFormKeeps
<1>4. ASSUME NEW s \in Saver, \/ \E unread \in BOOLEAN : SaveReads(s, unread)
                              \/ SaveWrites(s) \/ SaveFails(s) \/ StartJobs(s)
      PROVE  KeyInv'
    BY <1>4, SaveReadsKeeps, SaveWritesKeeps, SaveFailsKeeps, StartJobsKeeps
<1>5. CASE UNCHANGED mailVars
    BY <1>5 DEF mailVars, KeyInv, MailTypes, IdleSaves, SlotKept, OneSaves, SaverFits,
                PatchFits, JobFits
<1> QED BY <1>1, <1>2, <1>3, <1>4, <1>5 DEF MailNext

\* A batch of a provider for which a key was saved gets the last one, or the one entered
\* with it, whoever starts it: KeyAsSaved, for any providers, keys, environment and number
\* of requests (server.go, settings_store.py).
THEOREM KeysKept == MailSpec => []KeyAsSaved
<1>1. KeyInv => KeyAsSaved
    BY DEF KeyInv, JobFits, KeyAsSaved
<1> QED BY <1>1, MailInitially, MailStep, PTL DEF MailSpec

=============================================================================
