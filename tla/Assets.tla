------------------------------- MODULE Assets -------------------------------
(***************************************************************************)
(* Assets and their movements (services/hr/app/routers/assets.py,          *)
(* models/assets.py): units are assigned to employees and come back, and   *)
(* the stock is corrected.  A movement locks the row of its asset.         *)
(***************************************************************************)
EXTENDS Hiring, Integers, FiniteSetsExt

CONSTANTS Items, Quantities, Deltas   \* bounds: assets, totals and the units of a movement

ASSUME ItemsAssumption == None \notin Items /\ Quantities \subseteq Nat /\ Deltas \subseteq Int

VARIABLES
    asset,        \* assets: total_quantity, -1 for a row that is not there
    opening,      \* history: the total_quantity an asset was created with
    moved,        \* asset_movements, summed: per asset, per employee or None
    moving        \* per worker: the movement it serves and what it has read

assetVars == <<asset, opening, moved, moving>>

Movers == Employees \cup {None}
NotMoving == [step |-> "idle", item |-> None, employee |-> None, delta |-> 0,
              total |-> 0, out |-> 0]

AssetsTypeOK ==
    /\ asset \in [Items -> Nat \cup {-1}] /\ opening \in [Items -> Nat \cup {-1}]
    /\ moved \in [Items -> [Movers -> Int]]
    /\ moving \in [Workers ->
           [step : {"idle", "locked", "summed"}, item : Items \cup {None}, employee : Movers,
            delta : Deltas \cup {0}, total : Nat, out : Int]]

AssetsInit ==
    /\ asset = [i \in Items |-> -1] /\ opening = [i \in Items |-> -1]
    /\ moved = [i \in Items |-> [e \in Movers |-> 0]]
    /\ moving = [w \in Workers |-> NotMoving]

AssignedOut(i) == MapThenSumSet(LAMBDA e : moved[i][e], Employees)

\* POST /assets
CreateAsset(i, quantity) ==
    /\ asset[i] = -1
    /\ asset' = [asset EXCEPT ![i] = quantity]
    /\ opening' = [opening EXCEPT ![i] = quantity]
    /\ UNCHANGED <<moved, moving>>

\* Variant: the row is read without a lock.
ReadAsset(w, i, e, delta) ==
    /\ moving[w] = NotMoving
    /\ asset[i] # -1
    /\ moving' = [moving EXCEPT ![w] = [step |-> "locked", item |-> i, employee |-> e,
                                        delta |-> delta, total |-> asset[i], out |-> 0]]
    /\ UNCHANGED <<asset, opening, moved>>

\* POST /assets/movements: SELECT ... FOR UPDATE waits for other movements of the asset.
LockAsset(w, i, e, delta) ==
    /\ moving[w] = NotMoving
    /\ asset[i] # -1
    /\ \A v \in Workers : moving[v].item # i
    /\ moving' = [moving EXCEPT ![w] = [step |-> "locked", item |-> i, employee |-> e,
                                        delta |-> delta, total |-> asset[i], out |-> 0]]
    /\ UNCHANGED <<asset, opening, moved>>

SumMovements(w, i) ==
    /\ moving[w].step = "locked" /\ moving[w].item = i
    /\ moving' = [moving EXCEPT ![w] = [@ EXCEPT !.step = "summed", !.out = AssignedOut(i)]]
    /\ UNCHANGED <<asset, opening, moved>>

\* Variant: a correction is not checked.
AllowsAnyCorrection(m) ==
    m.employee # None => m.out + m.delta >= 0 /\ m.out + m.delta <= m.total

\* What the row may be moved to: an assignment or return keeps what is out between
\* nothing and the total, a correction keeps the total above what is out.
Allows(m) ==
    IF m.employee # None
    THEN m.out + m.delta >= 0 /\ m.out + m.delta <= m.total
    ELSE m.total + m.delta >= 0 /\ m.total + m.delta >= m.out

SaveMovement(w, i) ==
    /\ moving[w].step = "summed" /\ moving[w].item = i
    /\ Allows(moving[w])
    /\ asset' = IF moving[w].employee # None THEN asset
                ELSE [asset EXCEPT ![i] = moving[w].total + moving[w].delta]
    /\ moved' = [moved EXCEPT ![i] = [moved[i] EXCEPT ![moving[w].employee] = @ + moving[w].delta]]
    /\ moving' = [moving EXCEPT ![w] = NotMoving]
    /\ UNCHANGED opening

\* A movement is refused, or its process goes away: the lock is released.
AbandonMovement(w) ==
    /\ moving[w] # NotMoving
    /\ moving' = [moving EXCEPT ![w] = NotMoving]
    /\ UNCHANGED <<asset, opening, moved>>

AssetsNext ==
    \/ \E i \in Items, quantity \in Quantities : CreateAsset(i, quantity)
    \/ \E w \in Workers :
           \/ \E i \in Items :
                  \/ \E e \in Movers, delta \in Deltas : LockAsset(w, i, e, delta)
                  \/ SumMovements(w, i) \/ SaveMovement(w, i)
           \/ AbandonMovement(w)

-----------------------------------------------------------------------------
(* Properties *)

\* What employees hold is never more than there is nor less than nothing, and the total
\* is what the asset was created with and its corrections add up to, whichever movements
\* overlap (create_asset_movement, under the lock of the row).  It is the sum over the
\* employees that is bounded: one may return what another one holds.
StockAddsUp ==
    \A i \in Items : asset[i] # -1 =>
        /\ 0 <= AssignedOut(i) /\ AssignedOut(i) <= asset[i]
        /\ asset[i] = opening[i] + moved[i][None]
=============================================================================
