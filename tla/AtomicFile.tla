------------------------------ MODULE AtomicFile ------------------------------
(***************************************************************************)
(* What PUT /api/compose/file and the PutFile command promise: README.md   *)
(* calls the operation an "atomic write".  The file holds one whole        *)
(* content at a time; a request replaces it in one step and only then      *)
(* succeeds, or fails and leaves it alone; a reader gets one of the        *)
(* contents the file has held.  ComposeFile is checked against this.       *)
(***************************************************************************)
CONSTANTS Writers,      \* the request handlers that may write the file
          Readers,      \* the handlers and commands that read it
          Contents,     \* the contents a request may carry
          Image,        \* Image[c]: the bytes of the file that holds c
          NoFile        \* the file does not exist

VARIABLES file,         \* the bytes served, or NoFile
          phase,        \* where a request is: idle, busy, applied
          want,         \* the content a request carries
          view          \* what each reader read last

vars == <<file, phase, want, view>>

Images == {Image[c] : c \in Contents}

Init == /\ file \in Images \union {NoFile}
        /\ phase = [w \in Writers |-> "idle"]
        /\ want \in [Writers -> Contents]
        /\ view = [r \in Readers |-> NoFile]

(* A request that carries content c arrives. *)
Begin(w, c) == /\ phase[w] = "idle"
               /\ phase' = [phase EXCEPT ![w] = "busy"]
               /\ want' = [want EXCEPT ![w] = c]
               /\ UNCHANGED <<file, view>>

(* The file changes from one whole content to another in one step. *)
Apply(w) == /\ phase[w] = "busy"
            /\ file' = Image[want[w]]
            /\ phase' = [phase EXCEPT ![w] = "applied"]
            /\ UNCHANGED <<want, view>>

(* Success is reported of an applied request only, failure only of one that
   changed nothing. *)
Succeed(w) == /\ phase[w] = "applied"
              /\ phase' = [phase EXCEPT ![w] = "idle"]
              /\ UNCHANGED <<file, want, view>>

Fail(w) == /\ phase[w] = "busy"
           /\ phase' = [phase EXCEPT ![w] = "idle"]
           /\ UNCHANGED <<file, want, view>>

(* The service stops: no request in flight is answered. *)
Crash == /\ phase' = [w \in Writers |-> "idle"]
         /\ view' = [r \in Readers |-> NoFile]
         /\ UNCHANGED <<file, want>>

Read(r) == /\ view' = [view EXCEPT ![r] = file]
           /\ UNCHANGED <<file, phase, want>>

(* A reader hands its answer on. *)
Return(r) == /\ view' = [view EXCEPT ![r] = NoFile]
             /\ UNCHANGED <<file, phase, want>>

Next == \/ \E w \in Writers : \/ \E c \in Contents : Begin(w, c)
                              \/ Apply(w)
                              \/ Succeed(w)
                              \/ Fail(w)
        \/ \E r \in Readers : Read(r) \/ Return(r)
        \/ Crash

Spec == Init /\ [][Next]_vars
===============================================================================
