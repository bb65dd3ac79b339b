------------------------------ MODULE MppBuffer ------------------------------
(***************************************************************************)
(* A buffer group of the bundled Rockchip MPP (mpp_buffer.cpp,              *)
(* mpp_buffer_impl.cpp): where the memory of frames and packets comes from. *)
(*                                                                          *)
(* One getter thread (the decoder's parser) takes buffers from the group;   *)
(* any thread with a reference adds one or puts it back; the owner clears   *)
(* the group at an info change, and puts it while buffers may still be out. *)
(* A buffer is its buffer_id.                                               *)
(*                                                                          *)
(* What is done under buf_lock is one step, but for the put of a used       *)
(* buffer, which is two: the owner puts the group without buf_lock, holding *)
(* the service's lock only, and may come between them.  Its own three steps *)
(* are the walk of the unused list, the test of the used one, and the mark  *)
(* of the orphan.  A counter that the walk and a put change at once may     *)
(* lose one of the changes; that is left out, and no property looks at a    *)
(* counter while it can happen or after, except DestroyedEmpty, which the   *)
(* code breaks without it.                                                  *)
(***************************************************************************)
EXTENDS Integers, Sequences, FiniteSets, SequencesExt

CONSTANTS
    Kinds,      \* kinds of group
    Sizes,      \* sizes asked for
    Limit,      \* limit_count, 0 for none (internal groups only)
    SizeLimit,  \* limit_size, 0 for none (internal groups only)
    MaxBuffers, \* bound on the buffers ever made
    MaxRefs     \* bound on the references to one buffer

Buffers == 1 .. MaxBuffers

ASSUME KindAssumption == Kinds \subseteq {"internal", "external", "misc"}
ASSUME SizeAssumption == Sizes \subseteq Nat \ {0} /\ SizeLimit \in Nat
ASSUME BoundAssumption == Limit \in Nat /\ {MaxBuffers, MaxRefs} \subseteq Nat \ {0}

VARIABLES
    kind,       \* mode, and is_misc
    group,      \* "live"; being put, "walked" then "leaving"; "orphan"; or "gone"
    lists,      \* the used buffers, list_unused and the group's counters
    taken,      \* the used buffer that put_buffer, under buf_lock, has unlinked, or 0
    made,       \* the last buffer_id given
    size, ref,  \* of each buffer: info.size, ref_count
    discard,    \* buffers whose discard is set
    held,       \* references the threads have, for each buffer
    releasing,  \* buffers put for the last time, by threads not yet at buf_lock
    gpc, want,  \* the getter, and the size it asks for
    promised,   \* it saw an unused buffer before it asked
    old         \* history: buffers made before the last clear

getterVars == <<gpc, want, promised>>
bufferVars == <<made, size, ref, discard, held>>
vars == <<kind, group, lists, taken, bufferVars, releasing, getterVars, old>>

NoBuffers == [used |-> <<>>, unused |-> <<>>, count_used |-> 0, count_unused |-> 0,
              buffer_count |-> 0, usage |-> 0]

BufLockFree == taken = 0

\* put_group holds the service's lock from its walk to the orphan's mark.
ServiceLockFree == group \notin {"walked", "leaving"}

Init ==
    /\ kind \in Kinds /\ group = "live" /\ lists = NoBuffers
    /\ made = 0 /\ taken = 0 /\ discard = {} /\ releasing = {} /\ old = {}
    /\ size = [b \in Buffers |-> 0] /\ ref = [b \in Buffers |-> 0]
    /\ held = [b \in Buffers |-> 0]
    /\ gpc = "idle" /\ want = 0 /\ promised = FALSE

-----------------------------------------------------------------------------
(* Lists *)

\* list_del_init: b leaves the list it is in.
Without(s, b) ==
    LET at == {i \in DOMAIN s : s[i] = b} IN
    IF at = {} THEN s ELSE RemoveAt(s, CHOOSE i \in at : TRUE)

SizeOf(s) ==
    LET sum[i \in 0 .. Len(s)] == IF i = 0 THEN 0 ELSE sum[i - 1] + size[s[i]]
    IN  sum[Len(s)]

\* fault: a buffer made for use is not counted
AddedUncounted(l, b, n, use) ==
    [l EXCEPT !.used = IF use THEN Append(@, b) ELSE @,
              !.unused = IF use THEN @ ELSE Append(@, b),
              !.count_unused = IF use THEN @ ELSE @ + 1,
              !.buffer_count = @ + 1, !.usage = @ + n]

\* mpp_buffer_create's end: with a pointer to return the buffer is used, else unused.
Added(l, b, n, use) ==
    [l EXCEPT !.used = IF use THEN Append(@, b) ELSE @,
              !.unused = IF use THEN @ ELSE Append(@, b),
              !.count_used = IF use THEN @ + 1 ELSE @,
              !.count_unused = IF use THEN @ ELSE @ + 1,
              !.buffer_count = @ + 1, !.usage = @ + n]

Taken(l, b) ==
    [l EXCEPT !.unused = Without(@, b), !.used = Append(@, b),
              !.count_used = @ + 1, !.count_unused = @ - 1]

\* put_buffer with reuse
Reused(l, b) ==
    [l EXCEPT !.used = Without(@, b), !.unused = Append(@, b),
              !.count_used = @ - 1, !.count_unused = @ + 1]

\* fault: the group's usage keeps the size of the buffer freed
FreedInUsage(l, b) ==
    [l EXCEPT !.used = Without(@, b), !.count_used = @ - 1, !.buffer_count = @ - 1]

\* put_buffer without, of a used buffer: the memory is freed, or given back to
\* who committed it.
Freed(l, b) ==
    [l EXCEPT !.used = Without(@, b), !.count_used = @ - 1,
              !.buffer_count = @ - 1, !.usage = @ - size[b]]

\* The same of the first n unused buffers, one after the other.
FreedFirst(l, n) ==
    [l EXCEPT !.unused = SubSeq(@, n + 1, Len(@)), !.count_unused = @ - n,
              !.buffer_count = @ - n, !.usage = @ - SizeOf(SubSeq(l.unused, 1, n))]

-----------------------------------------------------------------------------
(* Getter: mpp_buffer_group_unused, then mpp_buffer_get *)

HasRoom == Limit = 0 \/ lists.buffer_count < Limit
SizeFits(n) == SizeLimit = 0 \/ n <= SizeLimit

\* mpp_buffer_group_unused of an internal group
Unused == IF Limit = 0 THEN 3 ELSE Limit - lists.count_used

Look(n) ==
    /\ gpc = "idle" /\ group = "live"
    /\ promised' = (kind = "internal" /\ Unused >= 1)
    /\ want' = n
    /\ gpc' = "get"
    /\ UNCHANGED <<kind, group, lists, taken, bufferVars, releasing, old>>

\* How many unused buffers stand before the first that is large enough.
TooSmall == Cardinality({n \in DOMAIN lists.unused :
                             \A i \in 1 .. n : size[lists.unused[i]] < want})

\* fault: a group keeps what is too small
Kept == lists

\* An internal group frees on the way what is too small.
Searched == IF kind = "external" THEN lists ELSE FreedFirst(lists, TooSmall)

\* mpp_buffer_get_unused
GetUnused ==
    LET b == lists.unused[TooSmall + 1] IN
    /\ gpc = "get" /\ BufLockFree
    /\ IF TooSmall < Len(lists.unused)
       THEN /\ lists' = Taken(Searched, b)
            /\ ref' = [ref EXCEPT ![b] = @ + 1] /\ held' = [held EXCEPT ![b] = @ + 1]
            /\ gpc' = "idle"
       ELSE /\ lists' = Searched
            /\ gpc' = IF kind = "external" THEN "idle" ELSE "create"
            /\ UNCHANGED <<ref, held>>
    /\ UNCHANGED <<kind, group, taken, made, size, discard, releasing, want, promised, old>>

\* mpp_buffer_create: the limits are read without buf_lock, then memory is
\* allocated, then the buffer joins the used ones.
CreateAlloc ==
    /\ gpc = "create" /\ HasRoom /\ SizeFits(want)
    /\ gpc' = "insert"
    /\ UNCHANGED <<kind, group, lists, taken, bufferVars, releasing, want, promised, old>>

\* A limit is reached, or the allocator fails.
CreateFail ==
    /\ gpc = "create"
    /\ gpc' = "idle"
    /\ UNCHANGED <<kind, group, lists, taken, bufferVars, releasing, want, promised, old>>

Insert ==
    LET b == made + 1 IN
    /\ gpc = "insert" /\ b \in Buffers /\ BufLockFree
    /\ made' = b
    /\ size' = [size EXCEPT ![b] = want]
    /\ ref' = [ref EXCEPT ![b] = 1] /\ held' = [held EXCEPT ![b] = 1]
    /\ lists' = Added(lists, b, want, TRUE)
    /\ gpc' = "idle"
    /\ UNCHANGED <<kind, group, taken, discard, releasing, want, promised, old>>

-----------------------------------------------------------------------------
(* Threads with a reference *)

\* mpp_buffer_inc_ref; who has a reference finds the buffer used.
IncRef(b) ==
    /\ held[b] \in 1 .. MaxRefs - 1
    /\ ref' = [ref EXCEPT ![b] = @ + 1] /\ held' = [held EXCEPT ![b] = @ + 1]
    /\ UNCHANGED <<kind, group, lists, taken, made, size, discard, releasing, getterVars, old>>

\* mpp_buffer_put: the count goes down under the buffer's lock; the thread that
\* brings it to 0 goes on to find the group, under the service's lock.
PutRef(b) ==
    /\ held[b] > 0 /\ (ref[b] = 1 => ServiceLockFree)
    /\ ref' = [ref EXCEPT ![b] = @ - 1] /\ held' = [held EXCEPT ![b] = @ - 1]
    /\ releasing' = IF ref[b] = 1 THEN releasing \cup {b} ELSE releasing
    /\ UNCHANGED <<kind, group, lists, taken, made, size, discard, getterVars, old>>

Reusable(b) == kind # "misc" /\ b \notin discard

\* Under buf_lock, put_buffer begins: the buffer leaves list_used, still counted as
\* used.
Unlink(b) ==
    /\ b \in releasing /\ BufLockFree
    /\ releasing' = releasing \ {b}
    /\ taken' = b
    /\ UNCHANGED <<kind, group, lists, bufferVars, getterVars, old>>

\* put_buffer goes on, in a group that is there: the buffer is reused, or freed,
\* with it an orphan group that has no other.
Release ==
    LET l == IF Reusable(taken) THEN Reused(lists, taken) ELSE Freed(lists, taken) IN
    /\ taken # 0 /\ group # "gone"
    /\ taken' = 0
    /\ lists' = l
    /\ group' = IF group = "orphan" /\ ~Reusable(taken) /\ l.usage = 0 THEN "gone" ELSE group
    /\ UNCHANGED <<kind, bufferVars, releasing, getterVars, old>>

-----------------------------------------------------------------------------
(* Owner *)

\* mpp_buffer_commit and mpp_buffer_import to an external group: a commit leaves the
\* buffer unused, an import returns it used, with a reference.
Commit(n, use) ==
    LET b == made + 1 IN
    /\ kind = "external" /\ group = "live" /\ b \in Buffers /\ BufLockFree
    /\ made' = b
    /\ size' = [size EXCEPT ![b] = n]
    /\ lists' = Added(lists, b, n, use)
    /\ ref' = [ref EXCEPT ![b] = IF use THEN 1 ELSE 0]
    /\ held' = [held EXCEPT ![b] = IF use THEN 1 ELSE 0]
    /\ UNCHANGED <<kind, group, taken, discard, releasing, getterVars, old>>

\* fault: only buffers no thread is about to release are discarded
HeldDiscarded == discard \cup {b \in ToSet(lists.used) : held[b] > 0}

UsedDiscarded == discard \cup ToSet(lists.used)

UnusedFreed == FreedFirst(lists, Len(lists.unused))

\* mpp_buffer_group_clear
GroupClear ==
    /\ group = "live" /\ kind # "misc" /\ BufLockFree
    /\ discard' = UsedDiscarded
    /\ lists' = UnusedFreed
    /\ old' = 1 .. made
    /\ UNCHANGED <<kind, group, taken, made, size, ref, held, releasing, getterVars>>

\* mpp_buffer_group_put, when the getter has stopped (Mpp::clear): put_group takes
\* the service's lock and frees the unused buffers.
GroupPut ==
    /\ group = "live" /\ kind # "misc" /\ gpc = "idle"
    /\ lists' = UnusedFreed
    /\ group' = "walked"
    /\ UNCHANGED <<kind, taken, bufferVars, releasing, getterVars, old>>

\* fault: the group is destroyed when no thread has a reference
NobodyHolds == \A b \in Buffers : held[b] = 0

NoneUsed == ToSet(lists.used) \subseteq {taken}

\* put_group: the group is destroyed if list_used is empty.
Decide ==
    /\ group = "walked"
    /\ group' = IF NoneUsed THEN "gone" ELSE "leaving"
    /\ UNCHANGED <<kind, lists, taken, bufferVars, releasing, getterVars, old>>

\* put_group: otherwise it becomes an orphan.
MarkOrphan ==
    /\ group = "leaving"
    /\ group' = "orphan"
    /\ UNCHANGED <<kind, lists, taken, bufferVars, releasing, getterVars, old>>

-----------------------------------------------------------------------------
(* Specification *)

Get == GetUnused \/ CreateAlloc \/ CreateFail \/ Insert \/ \E n \in Sizes : Look(n)
Put == Release \/ \E b \in Buffers : PutRef(b) \/ Unlink(b)
Next ==
    \/ Get \/ Put
    \/ \E b \in Buffers : IncRef(b)
    \/ \E n \in Sizes, use \in BOOLEAN : Commit(n, use)
    \/ GroupClear \/ GroupPut \/ Decide \/ MarkOrphan

Spec == Init /\ [][Next]_vars

-----------------------------------------------------------------------------
(* Properties *)

\* The variables have their types.
TypeOK ==
    /\ kind \in Kinds /\ group \in {"live", "walked", "leaving", "orphan", "gone"}
    /\ lists.used \in Seq(Buffers) /\ lists.unused \in Seq(Buffers)
    /\ {lists.count_used, lists.count_unused, lists.buffer_count, lists.usage} \subseteq Nat
    /\ made \in 0 .. MaxBuffers /\ taken \in 0 .. made
    /\ {discard, releasing, old} \subseteq SUBSET (1 .. made)
    /\ size \in [Buffers -> Sizes \cup {0}]
    /\ ref \in [Buffers -> 0 .. MaxRefs] /\ held \in [Buffers -> 0 .. MaxRefs]
    /\ gpc \in {"idle", "get", "create", "insert"} /\ want \in Sizes \cup {0}
    /\ promised \in BOOLEAN

UsedSet == ToSet(lists.used)
UnusedSet == ToSet(lists.unused)

\* A buffer is used exactly while threads have references or one is releasing it,
\* and its count is theirs; it is not unused as well; and the counters that the
\* limits are decided by say what the lists of a live group hold (put_buffer,
\* mpp_buffer_get_unused, mpp_buffer_create).
ListsMatchHolders ==
    /\ UsedSet = {b \in Buffers : held[b] > 0} \cup releasing \cup ({taken} \ {0})
    /\ UsedSet \cap UnusedSet = {}
    /\ \A b \in Buffers : ref[b] = held[b] /\ (b \in releasing \/ b = taken => held[b] = 0)
    /\ group = "live" =>
        /\ lists.count_used = Cardinality(UsedSet)
        /\ lists.count_unused = Cardinality(UnusedSet)
        /\ lists.buffer_count = lists.count_used + lists.count_unused
        /\ lists.usage = SizeOf(lists.used) + SizeOf(lists.unused)

\* The group is there for every thread that has a reference, or put the last and has
\* yet to take buf_lock: the assertion of mpp_buffer_ref_dec that it finds the group
\* by its id holds, though the owner put the group meanwhile.  (Of the thread that
\* has buf_lock and is putting a buffer it says nothing: see DestroyedEmpty.)
GroupFound ==
    group = "gone" => releasing = {} /\ \A b \in Buffers : held[b] = 0

\* A buffer made before the owner cleared the group, for another frame size, is
\* never handed out again, whether it was unused, in use, or being put then
\* (mpp_buffer_group_clear).
OldNeverUnused == UnusedSet \cap old = {}

\* The parser that sees an unused buffer (step 10 of its task) gets one (step 11),
\* whatever threads put and the owner clears in between: unless the size is over the
\* limit, or memory runs out, mpp_buffer_create is not refused.
PromiseKept == gpc = "create" /\ promised => HasRoom

\* "otherwise move the group to list_orphan and wait for buffer release": an orphan
\* group waits for a buffer that a thread has yet to release.
OrphanWaits == group = "orphan" => UsedSet # {}

\* "mpp_assert(group->count_used == 0); mpp_assert(group->count_unused == 0)": a group
\* is destroyed when it has no buffer (destroy_group).
DestroyedEmpty == group = "gone" => lists.count_used = 0 /\ lists.count_unused = 0
=============================================================================
