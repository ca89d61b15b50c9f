------------------------------ MODULE PgListener ------------------------------
(***************************************************************************)
(* pg_listener.rs: the task that subscribes to the node's channel of the   *)
(* database and turns each NOTIFY into a wake-up of the poll loop, with    *)
(* reconnection and exponential backoff.  CommandQueue instantiates it.    *)
(*                                                                         *)
(* connect_and_listen awaits client.batch_execute("LISTEN ...") before the *)
(* stream that polls the connection exists.  tokio-postgres is not part of *)
(* the repository; its Client makes progress only while its Connection is  *)
(* polled.  Driven says whether something polls it at that await: nothing  *)
(* in this code does, so FALSE is this code, whose listener never gets     *)
(* beyond LISTEN.  TRUE is the listener it means to be, under which the    *)
(* loop meets wake-ups as well; every behaviour without them is one of it. *)
(***************************************************************************)
EXTENDS Naturals

CONSTANTS MAX_BACKOFF_SECS, Driven

VARIABLES session,      \* where connect_and_listen is, or the wait between two,
                        \* or down with the service
          backoff,      \* backoff_secs
          sent,         \* a NOTIFY is on its way to a subscribed session
          permit        \* the permit of the shared tokio Notify: one at most

listenerVars == <<session, backoff, sent, permit>>

ListenerInit == /\ session = "connect"
                /\ backoff = 1
                /\ sent = FALSE
                /\ permit = FALSE

ListenerTypeOK == /\ session \in {"connect", "listen", "stream", "wait", "down"}
                  /\ backoff \in 1 .. MAX_BACKOFF_SECS
                  /\ sent \in BOOLEAN
                  /\ permit \in BOOLEAN

(* TCP, TLS and the start-up handshake, all driven by connect itself. *)
Connect == /\ session = "connect"
           /\ session' = "listen"
           /\ UNCHANGED <<backoff, sent, permit>>

(* batch_execute(LISTEN) answers, which it never does in the code as it is. *)
Listen == /\ session = "listen"
          /\ Driven
          /\ session' = "stream"
          /\ UNCHANGED <<backoff, sent, permit>>

(* Mutant of Notified: notify_waiters, which leaves no permit behind. *)
NotifiedWaiters == /\ session = "stream"
                   /\ sent
                   /\ sent' = FALSE
                   /\ UNCHANGED <<session, backoff, permit>>

(* The connection delivers the NOTIFY: wake.notify_one(). *)
Notified == /\ session = "stream"
            /\ sent
            /\ sent' = FALSE
            /\ permit' = TRUE
            /\ UNCHANGED <<session, backoff>>

(* connect, LISTEN or the stream returns an error: the backoff stays what the
   last waits made it.  A NOTIFY on its way is lost with the session. *)
SessionFails == /\ \/ session \in {"connect", "stream"}
                   \/ session = "listen" /\ Driven
                /\ session' = "wait"
                /\ sent' = FALSE
                /\ UNCHANGED <<backoff, permit>>

(* The stream ends without an error: the backoff is reset. *)
SessionEnds == /\ session = "stream"
               /\ session' = "wait"
               /\ backoff' = 1
               /\ sent' = FALSE
               /\ UNCHANGED permit

(* The wait of backoff_secs is over; the next one is twice as long. *)
Reconnect == /\ session = "wait"
             /\ session' = "connect"
             /\ backoff' = IF backoff * 2 < MAX_BACKOFF_SECS THEN backoff * 2
                                                             ELSE MAX_BACKOFF_SECS
             /\ UNCHANGED <<sent, permit>>
===============================================================================
