------------------------------- MODULE GtkDemo -------------------------------
(***************************************************************************)
(* The GTK authentication demo (06_GTK_Authentication_Demo/main.c): the    *)
(* only program of the repository that uses the library off its main       *)
(* thread.  A click starts a worker, the worker writes its findings into   *)
(* the application's state and queues a callback, and the main loop shows  *)
(* them.  The button is off in between; that, and not the mutex, is what   *)
(* keeps two workers and the main loop apart.                              *)
(*                                                                         *)
(* The text is reduced to the bus it names and whether it says PASSED.     *)
(***************************************************************************)
EXTENDS Naturals

CONSTANTS
    Bus,
    Worker,    \* threads: as many as there are runs under way at most
    NoBus

VARIABLES
    main,          \* "running", or "quit" when the window was closed
    sensitive,     \* the button can be clicked
    label,         \* lbl_status
    shown,         \* the text in the window
    bus_id, auth_success, result_text,   \* AppState
    handlerBus,    \* stse_handler.io.busID
    pc,            \* where a worker is
    idle,          \* callbacks queued
    result         \* history: the device asked last, and what it proved

vars == <<main, sensitive, label, shown, bus_id, auth_success, result_text,
          handlerBus, pc, idle, result>>

NoText == [bus |-> NoBus, passed |-> FALSE]

Init ==
    /\ main = "running" /\ sensitive = TRUE /\ label = "press" /\ shown = NoText
    /\ bus_id \in Bus /\ auth_success = FALSE /\ result_text = NoText
    /\ handlerBus = NoBus /\ pc = [w \in Worker |-> "none"] /\ idle = 0
    /\ result = NoText

-----------------------------------------------------------------------------
(* auth_worker_thread() *)

Go(w, from, to) == pc[w] = from /\ pc' = [pc EXCEPT ![w] = to]

\* Faulty variant: the verdict of the last run stays.
Reset_Forgets(w) ==
    /\ Go(w, "reset", "text")
    /\ UNCHANGED <<main, sensitive, label, shown, bus_id, auth_success, result_text, handlerBus, idle, result>>

Reset(w) ==
    /\ Go(w, "reset", "text")
    /\ auth_success' = FALSE
    /\ UNCHANGED <<main, sensitive, label, shown, bus_id, result_text, handlerBus, idle, result>>

\* The text begins anew with the bus, which is read again for the handler.
Text(w) ==
    /\ Go(w, "text", "handler")
    /\ result_text' = [bus |-> bus_id, passed |-> FALSE]
    /\ UNCHANGED <<main, sensitive, label, shown, bus_id, auth_success, handlerBus, idle, result>>

\* The default values are set, then the bus, unless the first fails.
Handler(w) ==
    /\ \/ Go(w, "handler", "authenticate") /\ handlerBus' = bus_id
       \/ Go(w, "handler", "end") /\ UNCHANGED handlerBus
    /\ result' = NoText
    /\ UNCHANGED <<main, sensitive, label, shown, bus_id, auth_success, result_text, idle>>

\* Faulty variant: the device could not be opened or did not prove itself, and no
\* callback is queued.
Authenticate_Silent(w) ==
    /\ \E passed \in BOOLEAN :
          /\ Go(w, "authenticate", IF passed THEN "passed" ELSE "none")
          /\ result' = [bus |-> handlerBus, passed |-> passed]
    /\ UNCHANGED <<main, sensitive, label, shown, bus_id, auth_success, result_text, handlerBus, idle>>

\* stse_init() and stse_device_authenticate().
Authenticate(w) ==
    /\ \E passed \in BOOLEAN :
          /\ Go(w, "authenticate", IF passed THEN "passed" ELSE "end")
          /\ result' = [bus |-> handlerBus, passed |-> passed]
    /\ UNCHANGED <<main, sensitive, label, shown, bus_id, auth_success, result_text, handlerBus, idle>>

Passed(w) ==
    /\ Go(w, "passed", "success")
    /\ result_text' = [result_text EXCEPT !.passed = TRUE]
    /\ UNCHANGED <<main, sensitive, label, shown, bus_id, auth_success, handlerBus, idle, result>>

\* The queries that follow only add to the text.
Success(w) ==
    /\ Go(w, "success", "end")
    /\ auth_success' = TRUE
    /\ UNCHANGED <<main, sensitive, label, shown, bus_id, result_text, handlerBus, idle, result>>

\* g_idle_add(), on every path, is the last the worker does.
End(w) ==
    /\ Go(w, "end", "none")
    /\ idle' = idle + 1
    /\ UNCHANGED <<main, sensitive, label, shown, bus_id, auth_success, result_text, handlerBus, result>>

auth_worker_thread(w) ==
    /\ main = "running"
    /\ \/ Reset(w) \/ Text(w) \/ Handler(w) \/ Authenticate(w) \/ Passed(w) \/ Success(w) \/ End(w)

-----------------------------------------------------------------------------
(* The main loop. *)

\* A click while the bus is chosen in the window; pthread_create() may fail, its
\* result is not looked at.
on_authenticate_clicked(bus) ==
    /\ main = "running" /\ sensitive
    /\ bus_id' = bus
    /\ sensitive' = FALSE /\ label' = "Authenticating..." /\ shown' = NoText
    /\ \/ \E w \in Worker : Go(w, "none", "reset")
       \/ UNCHANGED pc
    /\ UNCHANGED <<main, auth_success, result_text, handlerBus, idle, result>>

update_ui_idle ==
    /\ main = "running" /\ idle > 0
    /\ sensitive' = TRUE /\ shown' = result_text
    /\ label' = IF auth_success THEN "PASS" ELSE "FAIL"
    /\ idle' = idle - 1
    /\ UNCHANGED <<main, bus_id, auth_success, result_text, handlerBus, pc, result>>

\* The window is closed, the state is freed and the process ends, whatever the
\* worker is doing.
Close ==
    /\ main = "running"
    /\ main' = "quit"
    /\ UNCHANGED <<sensitive, label, shown, bus_id, auth_success, result_text, handlerBus, pc, idle, result>>

Next ==
    \/ \E bus \in Bus : on_authenticate_clicked(bus)
    \/ update_ui_idle \/ Close
    \/ \E w \in Worker : auth_worker_thread(w)

Spec == Init /\ [][Next]_vars

\* The main loop and the workers run.
FairSpec == Spec /\ WF_vars(update_ui_idle) /\ \A w \in Worker : WF_vars(auth_worker_thread(w))

-----------------------------------------------------------------------------
(* Properties. *)

\* Every variable has its type, and no more than one callback is queued.
TypeOK ==
    /\ main \in {"running", "quit"} /\ sensitive \in BOOLEAN
    /\ label \in {"press", "Authenticating...", "PASS", "FAIL"}
    /\ shown \in [bus : Bus \cup {NoBus}, passed : BOOLEAN]
    /\ result_text \in [bus : Bus \cup {NoBus}, passed : BOOLEAN]
    /\ result \in [bus : Bus \cup {NoBus}, passed : BOOLEAN]
    /\ bus_id \in Bus /\ auth_success \in BOOLEAN /\ handlerBus \in Bus \cup {NoBus}
    /\ pc \in [Worker -> {"none", "reset", "text", "handler", "authenticate", "passed", "success", "end"}]
    /\ idle \in {0, 1}

\* The verdict in the window is that of the device on the bus the text names, asked
\* since the last click: PASS is never left over from another run or another bus.
ShowsTheVerdict ==
    label \in {"PASS", "FAIL"} =>
        /\ shown.passed = (label = "PASS") /\ result.passed = shown.passed
        /\ result.bus \in {shown.bus, NoBus} /\ shown.bus = bus_id

\* The button comes back after every run that was started, on every path through
\* the worker.
ButtonComesBack == (\E w \in Worker : pc[w] # "none") ~> (sensitive \/ main = "quit")
=============================================================================
