------------------------------- MODULE Cell2 -------------------------------
(***************************************************************************)
(* Cell2<T> on native targets (chton/src/cell.rs): a RefCell inside a      *)
(* critical-section Mutex, whose guards enter the critical section before  *)
(* the RefCell borrow and leave it after the borrow is given back.         *)
(*                                                                         *)
(* The critical section is one for the process.  Its std implementation    *)
(* (external) is a mutex with a per-thread flag: acquire by the thread     *)
(* inside returns "nested" at once, and release does nothing for a state   *)
(* that says so.                                                           *)
(***************************************************************************)
EXTENDS Integers, Sequences, FiniteSets

CONSTANTS
  Threads,
  Cells,
  NOBODY,      (* the critical section is free                             *)
  NO_GUARD,    (* no guard is being made or dropped                        *)
  MAX_GUARDS,  (* guards one thread holds at a time, for TLC               *)
  LastFirst    (* threads drop the guard they took last first              *)

EXCLUSIVE == -1
Guard     == [cell : Cells, mut : BOOLEAN, nested : BOOLEAN]

ASSUME CellAssumption ==
  /\ NOBODY \notin Threads
  /\ NO_GUARD \notin Guard
  /\ MAX_GUARDS \in Nat
  /\ LastFirst \in BOOLEAN

VARIABLES
  owner,   (* the thread inside the critical section                       *)
  flag,    (* per RefCell: the number of shared borrows, EXCLUSIVE for one *)
           (* mutable borrow                                               *)
  guards,  (* per thread: the Ref and RefMut guards alive, oldest first    *)
  pc,      (* per thread: between which calls it is                        *)
  at       (* per thread: the guard being made or dropped                  *)

vars == <<owner, flag, guards, pc, at>>

Places    == {"running", "borrowing", "releasing",
              "unwinding", "unwind_releasing"}

Init ==
  /\ owner = NOBODY
  /\ flag = [c \in Cells |-> 0]
  /\ guards = [t \in Threads |-> <<>>]
  /\ pc = [t \in Threads |-> "running"]
  /\ at = [t \in Threads |-> NO_GUARD]

(* Mutant: the state acquire returned is not kept. *)
AcquireForgetsNesting(t, c, mut) ==
  /\ pc[t] = "running"
  /\ Len(guards[t]) < MAX_GUARDS
  /\ owner \in {NOBODY, t}
  /\ owner' = t
  /\ at' = [at EXCEPT ![t] = [cell |-> c, mut |-> mut, nested |-> FALSE]]
  /\ pc' = [pc EXCEPT ![t] = "borrowing"]
  /\ UNCHANGED <<flag, guards>>

(* Mutant: no critical section keeps the other threads out. *)
AcquireWithoutWaiting(t, c, mut) ==
  /\ pc[t] = "running"
  /\ Len(guards[t]) < MAX_GUARDS
  /\ owner' = t
  /\ at' = [at EXCEPT ![t] = [cell |-> c, mut |-> mut, nested |-> owner = t]]
  /\ pc' = [pc EXCEPT ![t] = "borrowing"]
  /\ UNCHANGED <<flag, guards>>

(* The first line of borrow and of borrow_mut: waits while another thread   *)
(* is inside.                                                               *)
Acquire(t, c, mut) ==
  /\ pc[t] = "running"
  /\ Len(guards[t]) < MAX_GUARDS
  /\ owner \in {NOBODY, t}
  /\ owner' = t
  /\ at' = [at EXCEPT ![t] = [cell |-> c, mut |-> mut, nested |-> owner = t]]
  /\ pc' = [pc EXCEPT ![t] = "borrowing"]
  /\ UNCHANGED <<flag, guards>>

(* Mutant: a mutable borrow is let in beside shared ones. *)
CanBorrowBeside(g) == flag[g.cell] # EXCLUSIVE

CanBorrow(g) == IF g.mut THEN flag[g.cell] = 0 ELSE flag[g.cell] # EXCLUSIVE

(* borrow_ref or borrow_ref_mut, and the guard built from it. *)
Borrow(t) ==
  /\ pc[t] = "borrowing"
  /\ CanBorrow(at[t])
  /\ flag' = [flag EXCEPT ![at[t].cell] = IF at[t].mut THEN EXCLUSIVE ELSE @ + 1]
  /\ guards' = [guards EXCEPT ![t] = Append(@, at[t])]
  /\ at' = [at EXCEPT ![t] = NO_GUARD]
  /\ pc' = [pc EXCEPT ![t] = "running"]
  /\ UNCHANGED owner

(* The RefCell refuses: the borrow panics before a CsGuard exists, so the   *)
(* state acquired is never released.                                        *)
Panic(t) ==
  /\ pc[t] = "borrowing"
  /\ ~ CanBorrow(at[t])
  /\ at' = [at EXCEPT ![t] = NO_GUARD]
  /\ pc' = [pc EXCEPT ![t] = "unwinding"]
  /\ UNCHANGED <<owner, flag, guards>>

Without(s, i) == SubSeq(s, 1, i - 1) \o SubSeq(s, i + 1, Len(s))

(* Mutant: a mutable borrow is given back like a shared one. *)
DropInnerAsShared(t, i) ==
  /\ pc[t] \in {"running", "unwinding"}
  /\ i \in 1 .. Len(guards[t])
  /\ LastFirst \/ pc[t] = "unwinding" => i = Len(guards[t])
  /\ flag' = [flag EXCEPT ![guards[t][i].cell] = @ - 1]
  /\ at' = [at EXCEPT ![t] = guards[t][i]]
  /\ guards' = [guards EXCEPT ![t] = Without(@, i)]
  /\ pc' = [pc EXCEPT ![t] =
              IF @ = "unwinding" THEN "unwind_releasing" ELSE "releasing"]
  /\ UNCHANGED owner

(* Mutant: a panic leaks the guards of the thread. *)
DropInnerNotUnwinding(t, i) ==
  /\ pc[t] = "running"
  /\ i \in 1 .. Len(guards[t])
  /\ LastFirst => i = Len(guards[t])
  /\ flag' = [flag EXCEPT ![guards[t][i].cell] =
                IF guards[t][i].mut THEN 0 ELSE @ - 1]
  /\ at' = [at EXCEPT ![t] = guards[t][i]]
  /\ guards' = [guards EXCEPT ![t] = Without(@, i)]
  /\ pc' = [pc EXCEPT ![t] = "releasing"]
  /\ UNCHANGED owner

(* Drop of a guard: the field `inner` goes first and gives back the borrow. *)
DropInner(t, i) ==
  /\ pc[t] \in {"running", "unwinding"}
  /\ i \in 1 .. Len(guards[t])
  /\ LastFirst \/ pc[t] = "unwinding" => i = Len(guards[t])
  /\ flag' = [flag EXCEPT ![guards[t][i].cell] =
                IF guards[t][i].mut THEN 0 ELSE @ - 1]
  /\ at' = [at EXCEPT ![t] = guards[t][i]]
  /\ guards' = [guards EXCEPT ![t] = Without(@, i)]
  /\ pc' = [pc EXCEPT ![t] =
              IF @ = "unwinding" THEN "unwind_releasing" ELSE "releasing"]
  /\ UNCHANGED owner

(* Mutant: a guard dropped by a panic keeps the section. *)
ReleaseNotUnwinding(t) ==
  /\ pc[t] \in {"releasing", "unwind_releasing"}
  /\ owner' = IF at[t].nested \/ pc[t] = "unwind_releasing"
              THEN owner ELSE NOBODY
  /\ at' = [at EXCEPT ![t] = NO_GUARD]
  /\ pc' = [pc EXCEPT ![t] =
              IF @ = "releasing" THEN "running" ELSE "unwinding"]
  /\ UNCHANGED <<flag, guards>>

(* Then CsGuard::drop releases the state that acquire returned. *)
Release(t) ==
  /\ pc[t] \in {"releasing", "unwind_releasing"}
  /\ owner' = IF at[t].nested THEN owner ELSE NOBODY
  /\ at' = [at EXCEPT ![t] = NO_GUARD]
  /\ pc' = [pc EXCEPT ![t] =
              IF @ = "releasing" THEN "running" ELSE "unwinding"]
  /\ UNCHANGED <<flag, guards>>

(* The panic has dropped every guard of the thread and is caught. *)
Caught(t) ==
  /\ pc[t] = "unwinding"
  /\ guards[t] = <<>>
  /\ pc' = [pc EXCEPT ![t] = "running"]
  /\ UNCHANGED <<owner, flag, guards, at>>

Next ==
  \E t \in Threads :
    \/ \E c \in Cells, mut \in BOOLEAN : Acquire(t, c, mut)
    \/ Borrow(t)
    \/ Panic(t)
    \/ \E i \in 1 .. MAX_GUARDS : DropInner(t, i)
    \/ Release(t)
    \/ Caught(t)

Spec == Init /\ [][Next]_vars

(* Unwinding is code that runs: a scheduler fair to runnable threads lets   *)
(* it go on.  Nothing makes a thread borrow, or drop what it still uses.    *)
Unwind(t) ==
  /\ pc[t] \in {"unwinding", "unwind_releasing"}
  /\ Release(t) \/ Caught(t) \/ \E i \in 1 .. MAX_GUARDS : DropInner(t, i)

FairSpec == Spec /\ \A t \in Threads : WF_vars(Unwind(t))

(***************************************************************************)
(* Properties.                                                             *)
(***************************************************************************)
(* The type invariant. *)
TypeOK ==
  /\ owner \in Threads \cup {NOBODY}
  /\ flag \in [Cells -> Nat \cup {EXCLUSIVE}]
  /\ guards \in [Threads -> Seq(Guard)]
  /\ pc \in [Threads -> Places]
  /\ at \in [Threads -> Guard \cup {NO_GUARD}]

(* "RAII guard that holds the critical section open for its lifetime": the  *)
(* thread of a live guard, or of one being made or dropped, is inside.      *)
GuardHoldsSection ==
  \A t \in Threads :
    guards[t] # <<>> \/ pc[t] \in {"borrowing", "releasing", "unwind_releasing"}
      => owner = t

(* "Cross-thread access blocks [...] until the guard drops": two threads    *)
(* never have a guard at the same time, and a mutable guard is the only one *)
(* on its cell.                                                             *)
BorrowsExclusive ==
  \A t, u \in Threads :
    \A i \in 1 .. Len(guards[t]), j \in 1 .. Len(guards[u]) :
      /\ t = u
      /\ guards[t][i].cell = guards[u][j].cell /\ guards[t][i].mut => i = j

(* "a second borrow in the same thread panics": only that panics, never a   *)
(* borrow that met another thread's.                                        *)
PanicsOnlyOnReentry ==
  [][\A t \in Threads :
       pc[t] = "borrowing" /\ pc'[t] = "unwinding" =>
         \E i \in 1 .. Len(guards[t]) : guards[t][i].cell = at[t].cell]_vars

(* "every acquire is paired with exactly one release": the section is held  *)
(* only by a thread that still has something to release, also after a panic *)
(* that lost the state it acquired.                                         *)
SectionIsReturned ==
  \A t \in Threads :
    owner = t => \/ \E i \in 1 .. Len(guards[t]) : ~ guards[t][i].nested
                 \/ at[t] # NO_GUARD /\ ~ at[t].nested

(* A thread that panicked leaves the section: the others do not wait for    *)
(* ever on a borrow that was refused.                                       *)
PanicFreesSection ==
  \A t \in Threads : pc[t] = "unwinding" ~> owner # t

(***************************************************************************)
(* The inductive invariant when guards are dropped last first: who is      *)
(* inside, which acquire was the outermost, and what the RefCells count.   *)
(***************************************************************************)
(* The indexes of the guards on a cell. *)
On(gs, c) == { i \in 1 .. Len(gs) : gs[i].cell = c }

InProgress(t) == pc[t] \in {"borrowing", "releasing", "unwind_releasing"}

InsideWhileGuarded ==
  \A t \in Threads :
    /\ at[t] # NO_GUARD <=> InProgress(t)
    /\ owner = t <=> guards[t] # <<>> \/ InProgress(t)

OldestIsOutermost ==
  \A t \in Threads :
    /\ \A i \in 1 .. Len(guards[t]) : guards[t][i].nested <=> i # 1
    /\ InProgress(t) => (at[t].nested <=> guards[t] # <<>>)

(* n is what the RefCell of c says of the guards gs. *)
Counts(n, gs, c) ==
  IF n = EXCLUSIVE
  THEN \E i \in 1 .. Len(gs) : On(gs, c) = {i} /\ gs[i].mut
  ELSE /\ n = Cardinality(On(gs, c))
       /\ \A i \in On(gs, c) : ~ gs[i].mut

FlagsCountGuards ==
  \A c \in Cells :
    /\ owner = NOBODY => flag[c] = 0
    /\ \A t \in Threads : owner = t => Counts(flag[c], guards[t], c)

IInv ==
  /\ TypeOK
  /\ InsideWhileGuarded
  /\ OldestIsOutermost
  /\ FlagsCountGuards
=============================================================================
