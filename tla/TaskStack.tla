------------------------------ MODULE TaskStack ------------------------------
(***************************************************************************)
(* Task stacks: what fr_task_create accepts and builds (kernel/task.c,     *)
(* port/cortex_m4/task_context.c), how the processor and PendSV save       *)
(* contexts on them (portasm.S), the checks of the switch path             *)
(* (kernel/scheduler.c) and what the diagnostics make of the stack memory. *)
(*                                                                         *)
(* Addresses count words of one address space in which the stacks lie; the *)
(* AAPCS alignment of 8 bytes is evenness, and 0 is NULL.  Of a word of    *)
(* memory only one thing matters: whether it holds the fill pattern.  Data *)
(* that is stored may equal it by chance, in the words AlikeWords.  A task *)
(* grows its stack by frames: a pushed word and up to MaxLocals words of   *)
(* locals below it, each of which it may or may not write.                 *)
(***************************************************************************)
EXTENDS Diagnostics, CrashRecord

CONSTANTS
    AddressWords,    \* (UINTPTR_MAX + 1) / 4
    RamStart,        \* the first word of RAM: below it there is no memory
    MinStack,        \* FR_CONFIG_MIN_TASK_STACK_WORDS
    GuardWords,      \* FR_TASK_STACK_GUARD_WORDS
    HardwareFrame,   \* words the processor stacks on exception entry
    SoftwareFrame,   \* words PendSV stacks: r4-r11
    StackConfigs,    \* the stack_memory and stack_size_words offered for each TCB
    MaxLocals,       \* the words of locals of a frame, at most
    AlikeWords       \* where a stored value may equal FR_TASK_STACK_FILL_PATTERN

ContextWords == HardwareFrame + SoftwareFrame

Aligned(address) == address % 2 = 0

ASSUME StackAssumption ==
    /\ MinStack > GuardWords /\ MinStack >= ContextWords
    /\ Aligned(HardwareFrame) /\ Aligned(SoftwareFrame)
    /\ MaxLocals + 1 < GuardWords

VARIABLES
    stack,      \* fr_task_t.stack_base and stack_size_words
    pattern,    \* the words that hold FR_TASK_STACK_FILL_PATTERN
    saved_sp,   \* fr_task_t.saved_sp
    padded,     \* xPSR bit 9 in a saved frame: a word was skipped to align it
    psp,        \* the process stack pointer of the thread that has the CPU
    deepest,    \* history: the lowest address a task has used, written or not
    trampled,   \* history: whose stack was written from another one
    alike       \* history: a stored value has equalled the pattern

stackVars == <<stack, pattern, saved_sp, padded, psp, deepest, trampled, alike>>
memoryVars == <<pattern, deepest, trampled, alike>>
allVars == <<schedVars, crashVars, stackVars>>

-----------------------------------------------------------------------------
(* Creation: the checks and the initial contents *)

fr_task_stack_is_valid(memory, size) ==
    /\ memory # 0
    /\ size >= MinStack
    /\ Aligned(size)
    /\ Aligned(memory)
    /\ size < AddressWords
    /\ memory + size < AddressWords

fr_task_calculate_stack_top(memory, size) == (memory + size) % AddressWords

stack_base(t) == stack[t].memory
stack_top(t) == fr_task_calculate_stack_top(stack[t].memory, stack[t].size)

StackWords(t) == stack_base(t) .. stack_top(t) - 1

(* The address fr_port_task_stack_init returns. *)
InitialSp(top) == top - ContextWords

\* Mutant: the initial context is built first and filled over.
FillLast(t) == pattern \cup StackWords(t)

(* fr_task_stack_fill over the whole stack, then the initial context. *)
FilledAndFramed(t) ==
    (pattern \cup StackWords(t)) \ (InitialSp(stack_top(t)) .. stack_top(t) - 1)

-----------------------------------------------------------------------------
(* Using the stack *)

Victims(t, words) == {v \in (Registered \cup {Idle}) \ {t} : words \cap StackWords(v) # {}}

(* t uses its stack down to address low and writes the given words of it. *)
Write(t, low, words) ==
    /\ \E same \in SUBSET (words \cap AlikeWords) :
         /\ pattern' = (pattern \ words) \cup same
         /\ alike' = (alike \/ same # {})
    /\ deepest' = [deepest EXCEPT ![t] = IF low < @ THEN low ELSE @]
    /\ trampled' = trampled \cup Victims(t, words)

Pad == psp % 2

(* Where the exception frame and, below it, r4-r11 come to lie. *)
FrameSp == psp - Pad - HardwareFrame
ContextSp == FrameSp - SoftwareFrame

(* The processor stacks a frame on the stack of a task, unless it runs on  *)
(* another one: the bootstrap stack before the start, the main one in PendSV. *)
StacksFrame == running /\ ~switching

-----------------------------------------------------------------------------
(* Each step of the core, with what it does to the stacks.  What a task    *)
(* does that resumes on an overwritten stack is undefined: here it does    *)
(* nothing any more.                                                       *)

Sane == ~Crashed /\ current \notin trampled

StackCreate ==
    \/ \E t \in Creators, p \in 0 .. MaxPriority :
         /\ CreateReserve(t, p)
         /\ LET id == task_count' IN
              \E config \in StackConfigs[id] :
                /\ fr_task_stack_is_valid(config.memory, config.size)
                /\ stack' = [stack EXCEPT ![id] = config]
                /\ saved_sp' = [saved_sp EXCEPT ![id] = 0]
         /\ UNCHANGED <<memoryVars, padded, psp>>
    \/ \E t \in Creators :
         /\ CreatePublish(t)
         /\ LET id == call[t].object IN
              /\ pattern' = FilledAndFramed(id)
              /\ saved_sp' = [saved_sp EXCEPT ![id] = InitialSp(stack_top(id))]
              /\ deepest' = [deepest EXCEPT ![id] = InitialSp(stack_top(id))]
         /\ UNCHANGED <<stack, padded, psp, trampled, alike>>

(* fr_scheduler_initialize_idle does not fill; SVC_Handler pops the        *)
(* context of the first task.                                              *)
StackStart ==
    /\ fr_scheduler_start
    /\ stack' \in {[stack EXCEPT ![Idle] = config] : config \in StackConfigs[Idle]}
    /\ saved_sp' = [saved_sp EXCEPT ![Idle] = InitialSp(stack'[Idle].memory + stack'[Idle].size)]
    /\ psp' = saved_sp'[current'] + ContextWords
    /\ UNCHANGED <<memoryVars, padded>>

StackTick ==
    /\ SchedulerTick
    /\ IF StacksFrame
         THEN FrameSp >= RamStart /\ Write(current, FrameSp, FrameSp .. psp - Pad - 1)
         ELSE UNCHANGED memoryVars
    /\ UNCHANGED <<stack, saved_sp, padded, psp>>

(* Exception entry, then the instructions of PendSV_Handler before the     *)
(* call of fr_scheduler_switch_from_isr.                                   *)
StackSwitchEntry ==
    /\ PendSV_Entry
    /\ ContextSp >= RamStart
    /\ Write(current, ContextSp, ContextSp .. psp - Pad - 1)
    /\ UNCHANGED <<stack, saved_sp, padded, psp>>

fr_scheduler_saved_sp_valid(t, sp) ==
    sp # 0 /\ sp >= stack_base(t) /\ sp <= stack_top(t) /\ Aligned(sp)

\* Mutant: the stack pointer of the outgoing task is taken as it is.
OutgoingUnchecked == TRUE

(* FR_ASSERT on the outgoing stack pointer. *)
OutgoingSpValid == fr_scheduler_saved_sp_valid(current, ContextSp)

(* FR_ASSERT on the stack pointer of the incoming one. *)
IncomingSpValid ==
    LET next == fr_scheduler_select_next(state, priority, current)
    IN next \in {NULL, current} \/ fr_scheduler_saved_sp_valid(next, saved_sp[next])

StackSwitch ==
    /\ switching
    /\ OutgoingSpValid /\ IncomingSpValid
    /\ PendSV_Handler
    /\ saved_sp' = [saved_sp EXCEPT ![current] = ContextSp]
    /\ padded' = [padded EXCEPT ![current] = Pad]
    /\ psp' = saved_sp'[current'] + ContextWords + padded'[current']
    /\ UNCHANGED <<stack, memoryVars>>

(* A task calls a function: it pushes a word and claims locals.  The idle  *)
(* loop calls nothing.                                                     *)
Grow(t, locals) ==
    /\ Executes(t)
    /\ psp - locals - 1 >= RamStart
    /\ psp' = psp - locals - 1
    /\ \E written \in SUBSET (psp' .. psp - 2) : Write(t, psp', {psp - 1} \cup written)
    /\ UNCHANGED <<stack, saved_sp, padded>>

(* It returns from one. *)
Shrink(t) ==
    /\ Executes(t)
    /\ psp' \in psp + 1 .. stack_top(t)
    /\ UNCHANGED <<stack, memoryVars, saved_sp, padded>>

-----------------------------------------------------------------------------
(* The ends a task can come to *)

SwitchAssertFails ==
    /\ switching
    /\ ~OutgoingSpValid \/ ~IncomingSpValid
    /\ fr_assert_fail

(* No memory below: the store faults, and so does stacking the frame. *)
ThreadStackFault ==
    /\ \E t \in Tasks, locals \in 0 .. MaxLocals : Executes(t) /\ psp - locals - 1 < RamStart
    /\ Fault("BusFault", TRUE, FALSE)

(* The frame of SysTick or PendSV does not fit. *)
EntryStackFault ==
    /\ StacksFrame /\ FrameSp < RamStart
    /\ Fault("BusFault", TRUE, FALSE)

(* It fits, but r4-r11 do not: PendSV faults, on the main stack. *)
PendSVStackFault ==
    /\ pendsv /\ ~switching
    /\ FrameSp >= RamStart /\ ContextSp < RamStart
    /\ Fault("BusFault", FALSE, TRUE)

(* A task function that returns reaches fr_port_task_return_trap. *)
fr_port_task_return_trap ==
    /\ \E t \in Tasks : InUserCode(t) /\ psp = stack_top(t)
    /\ Fault("UsageFault", FALSE, TRUE)

StackCrash ==
    /\ \/ SwitchAssertFails
       \/ ThreadStackFault
       \/ EntryStackFault
       \/ PendSVStackFault
       \/ fr_port_task_return_trap
    /\ UNCHANGED <<schedVars, stackVars>>

-----------------------------------------------------------------------------
StackInit ==
    /\ SchedulerInit
    /\ CrashInit
    /\ stack = [t \in TCBs |-> [memory |-> 0, size |-> 0]]
    /\ pattern = {}
    /\ saved_sp = [t \in TCBs |-> 0]
    /\ padded = [t \in TCBs |-> 0]
    /\ psp = 0
    /\ deepest = [t \in TCBs |-> AddressWords]
    /\ trampled = {}
    /\ alike = FALSE

StackStep ==
    \/ StackCreate
    \/ StackStart
    \/ StackTick
    \/ StackSwitchEntry
    \/ StackSwitch
    \/ SleepStep /\ UNCHANGED stackVars
    \/ \E t \in Tasks :
          ((\E locals \in 0 .. MaxLocals : Grow(t, locals)) \/ Shrink(t)) /\ UNCHANGED schedVars

StackNext ==
    \/ Sane /\ StackStep /\ UNCHANGED crashVars
    \/ Sane /\ StackCrash
    \/ CrashStep /\ UNCHANGED <<schedVars, stackVars>>
    \/ current \in trampled /\ UNCHANGED allVars

StackSpec == StackInit /\ [][StackNext]_allVars

-----------------------------------------------------------------------------
(* What the diagnostics report *)

FreeWords(t) == {n \in 0 .. stack[t].size : \A i \in 0 .. n - 1 : stack_base(t) + i \in pattern}

fr_task_stack_minimum_free_words(t) ==
    CHOOSE n \in FreeWords(t) : \A m \in FreeWords(t) : m <= n

\* Mutant: only the lowest word of the guard is looked at.
GuardFirstWord(t) == stack_base(t) \in pattern

fr_task_stack_guard_intact(t) == \A i \in 0 .. GuardWords - 1 : stack_base(t) + i \in pattern

fr_task_stack_get_info(t) ==
    LET minimum_free_words == fr_task_stack_minimum_free_words(t)
        in_bounds == saved_sp[t] >= stack_base(t) /\ saved_sp[t] <= stack_top(t)
    IN [peak_used_words |-> stack[t].size - minimum_free_words,
        minimum_usable_free_words |->
            IF minimum_free_words > GuardWords THEN minimum_free_words - GuardWords ELSE 0,
        overflow_detected |-> ~fr_task_stack_guard_intact(t) \/ ~in_bounds]

fr_kernel_stack_geometry_valid(base, top, size) ==
    /\ base # 0 /\ top # 0
    /\ size >= MinStack /\ Aligned(size) /\ size < AddressWords
    /\ Aligned(base) /\ Aligned(top)
    /\ base + size < AddressWords
    /\ top = base + size

GeometryValid ==
    {t \in Tasks : fr_kernel_stack_geometry_valid(stack_base(t), stack_top(t), stack[t].size)}

fr_kernel_saved_sp_valid(t) ==
    saved_sp[t] # 0 /\ saved_sp[t] \in stack_base(t) .. stack_top(t) /\ Aligned(saved_sp[t])

SavedSpValid == {t \in Tasks : fr_kernel_saved_sp_valid(t)}

-----------------------------------------------------------------------------
(* Properties *)

Published == {t \in Registered : state[t] # "CREATED"}

(* "The watermark is a diagnostic approximation" (docs/ARCHITECTURE.md:    *)
(* 198), and this is how far fr_task_stack_get_info may be off for a task  *)
(* that stayed within its stack, contexts that exceptions saved on it      *)
(* included.  It never reports more than the task used, and no overflow    *)
(* unless the task got into its guard, whatever was stored.  It reports    *)
(* less by at most the locals of one frame, unless a stored value was      *)
(* mistaken for the pattern.                                               *)
WatermarkApproximates ==
    \A t \in Published :
        (deepest[t] >= stack_base(t) /\ t \notin trampled) =>
            LET info == fr_task_stack_get_info(t)
                used == stack_top(t) - deepest[t]
            IN /\ info.peak_used_words <= used
               /\ info.overflow_detected => deepest[t] < stack_base(t) + GuardWords
               /\ ~alike => used - info.peak_used_words <= MaxLocals

(* A task that wrote below its stack has broken its guard, so that         *)
(* overflow_detected says so, however often it was preempted and whether   *)
(* it or an exception made the write; frames are assumed to skip fewer     *)
(* words than the guard has, and stored values to differ from the pattern. *)
OverflowNeverSilent ==
    \A t \in Published :
        (deepest[t] < stack_base(t) /\ ~alike) => fr_task_stack_get_info(t).overflow_detected

(* The scanner has nothing to report (kernel/diagnostics.c:113-261), of    *)
(* the stacks either, where tasks are created at boot: fr_task_create      *)
(* accepts no memory whose geometry it would report, at the end of the     *)
(* address space either, and the switch path stores no stack pointer it    *)
(* would report, an overflow ends in the assertion.                        *)
StacksPassScan ==
    SomeoneMayScan => fr_kernel_check_invariants(GeometryValid, SavedSpValid) = {}
=============================================================================
