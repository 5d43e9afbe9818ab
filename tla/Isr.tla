--------------------------------- MODULE Isr ---------------------------------
(***************************************************************************)
(* Interrupts of one device, from the device to the application's callback:*)
(* the adapter's handler counts them in the UIO file, a thread of the      *)
(* process reads the count and calls the callback.  With a legacy interrupt*)
(* (INTx) the handler masks the line and the thread unmasks it before each *)
(* read; with MSI nothing is masked.  The application registers the        *)
(* callback, stops the thread, and deletes the device.                     *)
(***************************************************************************)
EXTENDS Integers

CONSTANTS MaxEvents,  \* interrupts the device raises (bound)
          Calls,      \* "kill", "delete": what the application does after registering
          IsrFaults   \* "init": PciDevice_isr_init fails; "thread": pthread_create
                      \* fails; "io": an access of the ISR thread fails

ASSUME IsrAssumption ==
    /\ MaxEvents \in Nat
    /\ Calls \subseteq {"kill", "delete"}
    /\ IsrFaults \subseteq {"init", "thread", "io"}

VARIABLES
    msi,        \* adapter: dma_device->msi_enabled
    asserted,   \* device: an interrupt is signalled and not handled yet
    masked,     \* device: INTx disable bit of the command register
    raised,     \* device: number of interrupts so far
    count,      \* UIO: event count
    seen,       \* UIO: event count of the process's open file
    unserved,   \* an interrupt since the file was opened has had no callback
    interrupt,  \* device->interrupt is set
    isr_init,   \* device->isr_init: the UIO file is open
    isr,        \* the ISR thread
    cancelled,  \* pthread_cancel was called on it
    late,       \* history: callbacks that began after that
    app         \* the application's thread

isrVars    == <<msi, asserted, masked, raised, count, seen, unserved,
                interrupt, isr_init, isr, cancelled, late, app>>
kernelVars == <<msi, asserted, masked, raised, count>>
deviceVars == <<interrupt, isr_init>>

IsrInit ==
    /\ msi \in BOOLEAN
    /\ asserted = FALSE /\ masked = FALSE /\ raised = 0
    /\ count = 0 /\ seen = 0 /\ unserved = FALSE
    /\ interrupt = FALSE /\ isr_init = FALSE
    /\ isr = "none" /\ cancelled = FALSE /\ late = 0
    /\ app = "idle"

-----------------------------------------------------------------------------
(* The device and the adapter *)

(* External: the hardware signals an interrupt; a pending one absorbs it. *)
Raise ==
    /\ raised < MaxEvents
    /\ raised'   = raised + 1
    /\ asserted' = TRUE
    /\ unserved' = (unserved \/ isr_init)
    /\ UNCHANGED <<msi, masked, count, seen, deviceVars, isr, cancelled, late, app>>

(* Bug: without a look at msi_enabled an MSI is taken for somebody else's. *)
IrqhandlerIntxOnly ==
    /\ asserted /\ (msi \/ ~masked)
    /\ count'    = IF msi THEN count ELSE count + 1
    /\ asserted' = ~msi
    /\ masked'   = (masked \/ ~msi)
    /\ UNCHANGED <<msi, raised, seen, unserved, deviceVars, isr, cancelled, late, app>>

(***************************************************************************)
(* irqhandler, and UIO's event count.  An MSI is a message and is gone     *)
(* when handled; a line stays asserted until the callback has served the   *)
(* device, so it is masked (pci_check_and_mask_intx).                      *)
(***************************************************************************)
irqhandler ==
    /\ asserted /\ (msi \/ ~masked)
    /\ count'    = count + 1
    /\ asserted' = ~msi
    /\ masked'   = (masked \/ ~msi)
    /\ UNCHANGED <<msi, raised, seen, unserved, deviceVars, isr, cancelled, late, app>>

-----------------------------------------------------------------------------
(* The ISR thread *)

(* Read the command register once; an error ends the thread. *)
ReadCommand ==
    /\ isr = "start" /\ ~cancelled
    /\ \/ isr' = "enable"
       \/ "io" \in IsrFaults /\ isr' = "exited"
    /\ UNCHANGED <<kernelVars, seen, unserved, deviceVars, cancelled, late, app>>

(* Bug: pwrite is made in a way that does not notice the cancellation. *)
EnableIgnoresCancel ==
    /\ isr = "enable"
    /\ \/ isr' = "read" /\ masked' = FALSE
       \/ "io" \in IsrFaults /\ isr' = "exited" /\ UNCHANGED masked
    /\ UNCHANGED <<msi, asserted, raised, count, seen, unserved, deviceVars, cancelled, late, app>>

(* Clear the INTx disable bit. *)
EnableInterrupt ==
    /\ isr = "enable" /\ ~cancelled
    /\ \/ isr' = "read" /\ masked' = FALSE
       \/ "io" \in IsrFaults /\ isr' = "exited" /\ UNCHANGED masked
    /\ UNCHANGED <<msi, asserted, raised, count, seen, unserved, deviceVars, cancelled, late, app>>

(* Bug: the thread does not wait, and numbers the events itself. *)
ReadEventNoWait ==
    /\ isr = "read" /\ seen < MaxEvents
    /\ seen' = seen + 1 /\ isr' = "call"
    /\ UNCHANGED <<kernelVars, unserved, deviceVars, cancelled, late, app>>

(* read() of the UIO file blocks until the count differs from the last one; *)
(* it may return just before a cancellation reaches the thread.             *)
ReadEvent ==
    /\ isr = "read"
    /\ \/ /\ count # seen /\ seen' = count /\ isr' = "call"
          /\ late' = IF cancelled THEN late + 1 ELSE late
       \/ "io" \in IsrFaults /\ isr' = "exited" /\ UNCHANGED <<seen, late>>
    /\ UNCHANGED <<kernelVars, unserved, deviceVars, cancelled, app>>

(* Bug: the thread goes back to read() without unmasking. *)
CallbackSkipsEnable ==
    /\ isr = "call"
    /\ unserved' = FALSE
    /\ asserted' = (asserted /\ msi)
    /\ isr' = "read"
    /\ UNCHANGED <<msi, masked, raised, count, seen, deviceVars, cancelled, late, app>>

(* device->interrupt(): the application serves what the device has raised. *)
Callback ==
    /\ isr = "call"
    /\ unserved' = FALSE
    /\ asserted' = (asserted /\ msi)
    /\ isr' = "enable"
    /\ UNCHANGED <<msi, masked, raised, count, seen, deviceVars, cancelled, late, app>>

(* Bug: the cancellation only ends a thread that waits for an interrupt. *)
CancelOfWaiting ==
    /\ cancelled /\ isr = "read"
    /\ isr' = "exited"
    /\ UNCHANGED <<kernelVars, seen, unserved, deviceVars, cancelled, late, app>>

(* A cancelled thread ends where it enters or waits in a system call. *)
Cancel ==
    /\ cancelled /\ isr \in {"start", "enable", "read"}
    /\ isr' = "exited"
    /\ UNCHANGED <<kernelVars, seen, unserved, deviceVars, cancelled, late, app>>

IsrThread == ReadCommand \/ EnableInterrupt \/ ReadEvent \/ Callback \/ Cancel

-----------------------------------------------------------------------------
(* The application *)

(* PciDevice_isr_init: finds and opens the UIO file, from whose count on a *)
(* process sees events.                                                    *)
PciDevice_isr_init ==
    \/ isr_init' = TRUE /\ seen' = count
    \/ "init" \in IsrFaults /\ UNCHANGED <<isr_init, seen>>

(***************************************************************************)
(* PciDevice_registerISR.  device->interrupt is set first and not taken    *)
(* back when the initialization or pthread_create fails; set, it makes     *)
(* every further registration fail.                                        *)
(***************************************************************************)
PciDevice_registerISR ==
    /\ app = "idle" /\ ~interrupt
    /\ interrupt' = TRUE
    /\ PciDevice_isr_init
    /\ \/ isr_init' /\ isr' = "start"
       \/ (~isr_init' \/ "thread" \in IsrFaults) /\ UNCHANGED isr
    /\ UNCHANGED <<kernelVars, unserved, cancelled, late, app>>

(* pthread_cancel; nobody waits for the thread to end. *)
PciDevice_killISR ==
    /\ "kill" \in Calls /\ app = "idle" /\ isr # "none"
    /\ cancelled' = TRUE
    /\ UNCHANGED <<kernelVars, seen, unserved, deviceVars, isr, late, app>>

(***************************************************************************)
(* PciDevice_delete: pthread_cancel, if a callback is set.  After a failed *)
(* registration the thread's handle is null, and glibc dereferences it.    *)
(***************************************************************************)
PciDevice_delete ==
    /\ "delete" \in Calls /\ app = "idle"
    /\ \/ ~interrupt /\ app' = "freeing" /\ UNCHANGED cancelled
       \/ interrupt /\ isr # "none" /\ app' = "freeing" /\ cancelled' = TRUE
       \/ interrupt /\ isr = "none" /\ app' = "crashed" /\ UNCHANGED cancelled
    /\ UNCHANGED <<kernelVars, seen, unserved, deviceVars, isr, late>>

(***************************************************************************)
(* The rest of PciDevice_delete closes the files and frees the device; a   *)
(* caller of a device with a callback then ends in pthread_exit.           *)
(***************************************************************************)
FreeDevice ==
    /\ app = "freeing"
    /\ isr_init' = FALSE
    /\ app' = IF interrupt THEN "exited" ELSE "returned"
    /\ UNCHANGED <<kernelVars, seen, unserved, interrupt, isr, cancelled, late>>

IsrNext ==
    \/ Raise \/ irqhandler \/ IsrThread
    \/ PciDevice_registerISR \/ PciDevice_killISR \/ PciDevice_delete \/ FreeDevice

IsrSpec == IsrInit /\ [][IsrNext]_isrVars

(***************************************************************************)
(* The interrupt controller, the ISR thread and a call in progress go on,  *)
(* and a cancellation reaches its thread; nothing fails because it has to. *)
(***************************************************************************)
IsrFairSpec ==
    /\ IsrSpec
    /\ WF_isrVars(irqhandler) /\ WF_isrVars(FreeDevice)
    /\ WF_isrVars(IsrThread /\ isr' # "exited") /\ WF_isrVars(Cancel)

-----------------------------------------------------------------------------
(* Properties *)

(* Types; and a process never has seen more events than UIO has counted. *)
IsrTypeOK ==
    /\ msi \in BOOLEAN /\ asserted \in BOOLEAN /\ masked \in BOOLEAN
    /\ raised \in 0 .. MaxEvents
    /\ count \in Nat /\ seen \in 0 .. count
    /\ unserved \in BOOLEAN
    /\ interrupt \in BOOLEAN /\ isr_init \in BOOLEAN
    /\ isr \in {"none", "start", "enable", "read", "call", "exited"}
    /\ cancelled \in BOOLEAN /\ late \in Nat
    /\ app \in {"idle", "freeing", "crashed", "exited", "returned"}

Running == isr \notin {"none", "exited"} /\ ~cancelled

(***************************************************************************)
(* An interrupt that the device raises while a thread serves it reaches    *)
(* the callback, however it falls between unmasking, reading and calling.  *)
(***************************************************************************)
NoLostInterrupt == unserved /\ Running ~> ~unserved \/ ~Running

(***************************************************************************)
(* A legacy interrupt line is masked only while its event is on its way to *)
(* the callback: nothing is masked for good while the thread waits.        *)
(***************************************************************************)
MaskedIsReported ==
    isr = "read" /\ masked => count # seen

(***************************************************************************)
(* PciDevice_killISR does not wait for the thread.  What the application   *)
(* has to expect of it: one more callback may begin afterwards, which was  *)
(* on its way; no second one, however many interrupts come.                *)
(***************************************************************************)
LateCallbackOnce == late <= 1

(* A thread that was told to stop does, wherever in its loop it was. *)
StopsWhenKilled == cancelled ~> isr = "exited"

====
