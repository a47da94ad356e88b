----------------------------- MODULE CrashRecord -----------------------------
(***************************************************************************)
(* The two crash records a debugger reads after the system has stopped:    *)
(* kernel/assert.c for a failed FR_ASSERT, port/cortex_m4/fault.c for a    *)
(* processor fault.  Both handlers store field after field and set the     *)
(* magic last; a debugger may halt the core between any two stores.        *)
(*                                                                         *)
(* fr_assert_fail disables interrupts, and the faults have the highest     *)
(* configurable priority: once a capture has begun only another fault can  *)
(* interrupt it, which the processor escalates to a HardFault.  Fields are *)
(* taken in groups; each holds the name of what was captured into it.      *)
(***************************************************************************)
EXTENDS Sequences

VARIABLES
    assert_record,   \* g_fr_assert_record
    fault_record,    \* g_fr_fault_record
    capture          \* the handler that owns the core, if one does

crashVars == <<assert_record, fault_record, capture>>

AssertFields == {"count", "where", "registers"}
FaultFields == {"identity", "status", "frame", "addresses"}

fr_assert_init == [f \in AssertFields \cup {"magic"} |-> "clear"]

(* The fault record is in .bss. *)
FaultRecordAtReset == [f \in FaultFields \cup {"magic"} |-> "clear"]

NoCapture == [handler |-> "none"]

CrashInit ==
    /\ assert_record = fr_assert_init
    /\ fault_record = FaultRecordAtReset
    /\ capture = NoCapture

Crashed == capture # NoCapture

-----------------------------------------------------------------------------
fr_assert_fail ==
    /\ ~Crashed
    /\ capture' = [handler |-> "assert",
                   left |-> <<"invalidate", "count", "where", "registers", "magic">>]
    /\ UNCHANGED <<assert_record, fault_record>>

FaultCapture(kind, origin, stkerr, readable) ==
    [handler |-> "fault", kind |-> kind, origin |-> origin, stkerr |-> stkerr,
     readable |-> readable,
     left |-> <<"invalidate", "identity", "status", "frame", "addresses", "magic">>]

(* A fault: stkerr is CFSR.STKERR, the exception frame could not be        *)
(* stacked; readable, whether the stack pointer handed to                  *)
(* fr_fault_handle_c points into memory.                                   *)
Fault(kind, stkerr, readable) ==
    /\ ~Crashed
    /\ capture' = FaultCapture(kind, kind, stkerr, readable)
    /\ UNCHANGED <<assert_record, fault_record>>

(* What a store puts into the record. *)
Stored(record, field, content) ==
    CASE field = "invalidate" -> [record EXCEPT !.magic = "clear"]
      [] field = "magic" -> [record EXCEPT !.magic = "valid"]
      [] OTHER -> [record EXCEPT ![field] = content]

AssertStore ==
    /\ capture.handler = "assert"
    /\ capture.left # <<>>
    /\ assert_record' = Stored(assert_record, Head(capture.left), "assert")
    /\ capture' = [capture EXCEPT !.left = Tail(@)]
    /\ UNCHANGED fault_record

\* Mutant: the stacking error is not looked at.
FrameAlwaysValid(c) == TRUE

(* frame_valid; the stack pointer is never 0. *)
FrameValid(c) == ~c.stkerr

(* fr_fault_capture_frame, or fr_fault_clear_frame. *)
FrameContent(c) == IF FrameValid(c) THEN c.kind ELSE "clear"

(* The next store of fr_fault_handle_c; reading a frame that is not there   *)
(* would fault inside the handler instead.                                 *)
FaultStore ==
    /\ capture.handler = "fault"
    /\ capture.left # <<>>
    /\ LET f == Head(capture.left)
           content == IF f = "frame" THEN FrameContent(capture) ELSE capture.kind
       IN IF f = "frame" /\ FrameValid(capture) /\ ~capture.readable
            THEN /\ capture' = FaultCapture("HardFault", capture.origin, capture.stkerr, TRUE)
                 /\ UNCHANGED fault_record
            ELSE /\ fault_record' = Stored(fault_record, f, content)
                 /\ capture' = [capture EXCEPT !.left = Tail(@)]
    /\ UNCHANGED assert_record

(* while (1) nop *)
Spin ==
    /\ Crashed
    /\ capture.left = <<>>
    /\ UNCHANGED crashVars

CrashStep == AssertStore \/ FaultStore \/ Spin

-----------------------------------------------------------------------------
(* "Publish the magic last so a debugger never sees a partial valid        *)
(* record" (kernel/assert.c:39): whenever the core is halted, a record     *)
(* with its magic is whole, and a fault record describes the fault that    *)
(* stopped the system, not one the handler ran into.                       *)
CrashRecordsTrue ==
    /\ assert_record.magic = "valid" => \A f \in AssertFields : assert_record[f] = "assert"
    /\ fault_record.magic = "valid" =>
         \A f \in FaultFields :
             fault_record[f] \in {capture.origin} \cup IF f = "frame" THEN {"clear"} ELSE {}
=============================================================================
