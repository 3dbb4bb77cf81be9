------------------------------- MODULE QrScan -------------------------------
(* The camera behind the scan dialog: the open/close effect and the gallery    *)
(* picker of QrScannerDialog.tsx over the scanner that useQrScanner.ts keeps   *)
(* in a ref.  startScanning awaits the device three times; nothing tells it    *)
(* that the dialog was closed meanwhile.                                       *)
EXTENDS Naturals

CONSTANTS Openings      \* bound: how often the dialog is opened

Opening == 1 .. Openings
NoScanner == 0

VARIABLES
    isOpen,
    opened,     \* openings so far; the scanner an opening makes has its number
    timer,      \* the 400 ms until the sheet is up
    flow,       \* [Opening -> startScanning]
    ref,        \* qrScannerRef
    destroyed,  \* scanners that were stopped and destroyed
    on,         \* scanners whose camera runs
    look,       \* what the dialog says: [initializing, scanning, error]
    picking,    \* a gallery image is being read
    lost        \* history: scanners of a dialog closed while it asked for a camera,
                \* and the ones these pushed out of the ref

vars == <<isOpen, opened, timer, flow, ref, destroyed, on, look, picking, lost>>

Init ==
    /\ isOpen = FALSE
    /\ opened = 0
    /\ timer = FALSE
    /\ flow = [o \in Opening |-> "none"]
    /\ ref = NoScanner
    /\ destroyed = {}
    /\ on = {}
    /\ look = [initializing |-> FALSE, scanning |-> FALSE, error |-> FALSE]
    /\ picking = FALSE
    /\ lost = {}

-----------------------------------------------------------------------------
\* The effect of an open dialog arms the timer.
Open ==
    /\ ~isOpen
    /\ opened < Openings
    /\ isOpen' = TRUE
    /\ opened' = opened + 1
    /\ timer' = TRUE
    /\ UNCHANGED <<flow, ref, destroyed, on, look, picking, lost>>

\* stopScanning: stops and destroys the scanner of the ref, if there is one.
StoppedFault == {ref}

Stopped == {ref} \ {NoScanner}

StopScanning ==
    /\ on' = on \ Stopped
    /\ destroyed' = destroyed \cup Stopped
    /\ ref' = NoScanner

\* The dialog goes: the effect's cleanup clears the timer and stops the scanner.
TimerAfterCloseFault == timer

TimerAfterClose == FALSE

Leave(errorAfter) ==
    /\ isOpen' = FALSE
    /\ timer' = TimerAfterClose
    /\ StopScanning
    /\ look' = [look EXCEPT !.scanning = FALSE, !.error = errorAfter]
    /\ lost' = lost \cup {o \in Opening : flow[o] = "asking"}

\* Cancel or the backdrop.
Close ==
    /\ isOpen
    /\ Leave(FALSE)
    /\ UNCHANGED <<opened, flow, picking>>

\* startScanning up to hasCamera().
TimerFires ==
    /\ timer
    /\ timer' = FALSE
    /\ flow' = [flow EXCEPT ![opened] = "asking"]
    /\ look' = [initializing |-> TRUE, scanning |-> FALSE, error |-> FALSE]
    /\ UNCHANGED <<isOpen, opened, ref, destroyed, on, picking, lost>>

\* There is no camera: the message, whatever an older flow says of its scanner.
NoCamera(o) ==
    /\ flow[o] = "asking"
    /\ flow' = [flow EXCEPT ![o] = "ended"]
    /\ look' = [look EXCEPT !.initializing = FALSE, !.error = TRUE]
    /\ UNCHANGED <<isOpen, opened, timer, ref, destroyed, on, picking, lost>>

\* hasCamera() or start() throws: the message of the catch.
Fails(o) ==
    /\ flow[o] \in {"asking", "starting"}
    /\ flow' = [flow EXCEPT ![o] = "ended"]
    /\ look' = [initializing |-> FALSE, scanning |-> FALSE, error |-> TRUE]
    /\ UNCHANGED <<isOpen, opened, timer, ref, destroyed, on, picking, lost>>

\* There is one: a scanner goes into the ref, over whatever is there, and start()
\* asks for the camera.
MakeScanner(o) ==
    /\ flow[o] = "asking"
    /\ flow' = [flow EXCEPT ![o] = "starting"]
    /\ ref' = o
    /\ lost' = IF o \in lost THEN lost \cup Stopped ELSE lost
    /\ UNCHANGED <<isOpen, opened, timer, destroyed, on, look, picking>>

\* start() returns.  A scanner destroyed meanwhile leaves its camera off, but
\* startScanning goes on all the same, up to the listing of the cameras.
Starts(o) ==
    /\ flow[o] = "starting"
    /\ flow' = [flow EXCEPT ![o] = "ended"]
    /\ on' = on \cup ({o} \ destroyed)
    /\ look' = [look EXCEPT !.initializing = FALSE, !.scanning = TRUE]
    /\ UNCHANGED <<isOpen, opened, timer, ref, destroyed, picking, lost>>

\* A running scanner reads a code: the dialog closes and the ref's scanner stops,
\* which is another one when this one was pushed out of the ref.
Scan(o) ==
    /\ o \in on
    /\ Leave(look.error)
    /\ UNCHANGED <<opened, flow, picking>>

PickImage ==
    /\ isOpen
    /\ ~picking
    /\ picking' = TRUE
    /\ UNCHANGED <<isOpen, opened, timer, flow, ref, destroyed, on, look, lost>>

\* The image is read: a code closes the dialog, which may be another opening by now.
ImageRead ==
    /\ picking
    /\ picking' = FALSE
    /\ \/ isOpen /\ Leave(look.error)
       \/ UNCHANGED <<isOpen, timer, ref, destroyed, on, look, lost>>
    /\ UNCHANGED <<opened, flow>>

Next ==
    \/ Open \/ Close \/ TimerFires \/ PickImage \/ ImageRead
    \/ \E o \in Opening : NoCamera(o) \/ Fails(o) \/ MakeScanner(o) \/ Starts(o) \/ Scan(o)

Spec == Init /\ [][Next]_vars

-----------------------------------------------------------------------------
TypeOK ==
    /\ isOpen \in BOOLEAN
    /\ opened \in 0 .. Openings
    /\ timer \in BOOLEAN
    /\ flow \in [Opening -> {"none", "asking", "starting", "ended"}]
    /\ ref \in Opening \cup {NoScanner}
    /\ destroyed \subseteq Opening
    /\ on \subseteq Opening
    /\ look \in [initializing : BOOLEAN, scanning : BOOLEAN, error : BOOLEAN]
    /\ picking \in BOOLEAN
    /\ lost \subseteq Opening

\* The camera runs for the open dialog only.  The one leak: a dialog closed while it
\* still asks whether there is a camera makes its scanner afterwards, and nothing
\* ever stops that one, nor a later one it pushes out of the ref
\* (useQrScanner.ts 65-92).
CameraOffUnlessLost ==
    on \subseteq lost \cup (IF isOpen THEN {opened} ELSE {})
=============================================================================
