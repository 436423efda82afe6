------------------------------ MODULE Dashboard ------------------------------
(***************************************************************************)
(* The dashboard of routes/web.rs: the three lists it keeps in signals,    *)
(* which every page and every open event stream of the server shares.      *)
(*                                                                         *)
(* refresh() reads the three tables, one select after the other, and only  *)
(* then sets the three signals; index renders its page from the signals,   *)
(* not from what it has read.  The runtime has several threads, so another *)
(* request may come between any two of these steps; a client that hangs up *)
(* drops its handler at an await, that is, before or between the selects.  *)
(* The lists are versions: what a table holds is how often it was changed. *)
(***************************************************************************)
EXTENDS Naturals, Sequences, FiniteSetsExt

CONSTANTS
    Requests,   \* slots for the requests to the dashboard
    Lists,      \* devices, secrets, files
    Order,      \* the order in which refresh goes through them
    MaxEdits,   \* bound of the changes to each table
    None

ASSUME ListsAssumption ==
    /\ None \notin Nat /\ MaxEdits \in Nat
    /\ Order \in Seq(Lists) /\ Order # <<>>
    /\ \A l \in Lists : \E i \in 1 .. Len(Order) : Order[i] = l
    /\ \A i, j \in 1 .. Len(Order) : Order[i] = Order[j] => i = j

VARIABLES
    table,     \* per list: the version the database holds
    signal,    \* per list: the version the signal holds; None: no items
    pc,        \* how far each request is
    kind,      \* "index", or the list its POST deletes from
    at,        \* the list in Order it has come to
    snap,      \* what its refresh has read and not yet set
    since,     \* history: the tables as its handler began
    oldest,    \* history: the oldest versions it can come across
    missed     \* history: lists that a select has failed on

request == <<pc, kind, at, snap>>
history == <<since, oldest, missed>>
vars == <<table, signal, request, history>>

Rest == {"idle", "served", "redirected"}

Versions == 0 .. MaxEdits
Start == [l \in Lists |-> 0]
Empty == [l \in Lists |-> None]

\* seed, and no request.
Init ==
    /\ table = Start
    /\ signal = Empty
    /\ pc = [r \in Requests |-> "idle"]
    /\ kind = [r \in Requests |-> "index"]
    /\ at = [r \in Requests |-> 1]
    /\ snap = [r \in Requests |-> Empty]
    /\ since = [r \in Requests |-> Start]
    /\ oldest = [r \in Requests |-> Start]
    /\ missed = {}

Running == {r \in Requests : pc[r] \notin Rest}

\* The handlers of R are over, with everything they held.
End(R, step) ==
    /\ pc' = [r \in Requests |-> IF r \in R THEN step ELSE pc[r]]
    /\ kind' = [r \in Requests |-> IF r \in R THEN "index" ELSE kind[r]]
    /\ at' = [r \in Requests |-> IF r \in R THEN 1 ELSE at[r]]
    /\ snap' = [r \in Requests |-> IF r \in R THEN Empty ELSE snap[r]]
    /\ since' = [r \in Requests |-> IF r \in R THEN Start ELSE since[r]]
    /\ oldest' = [r \in Requests |-> IF r \in R THEN Start ELSE oldest[r]]

List(r) == Order[at[r]]
IsLast(r) == at[r] = Len(Order)

Advance_Mutant(r) == at' = [at EXCEPT ![r] = @ + 1]

\* On to the next list, or back to the first in the next stage.
Advance(r) == at' = [at EXCEPT ![r] = IF IsLast(r) THEN 1 ELSE @ + 1]

\* Every other way to change a table: the API, which does not refresh.
Edit(l) ==
    /\ table[l] < MaxEdits
    /\ table' = [table EXCEPT ![l] = @ + 1]

ApiEdit(l) ==
    /\ Edit(l)
    /\ UNCHANGED <<signal, request, history>>

-----------------------------------------------------------------------------

Entry_Mutant(k) == IF k = "index" THEN "rendering" ELSE "deleting"

Entry(k) == IF k = "index" THEN "reading" ELSE "deleting"

\* A request whose cookie is known: index, or the POST that deletes.
Begin(r, k) ==
    /\ pc[r] \in Rest
    /\ pc' = [pc EXCEPT ![r] = Entry(k)]
    /\ kind' = [kind EXCEPT ![r] = k]
    /\ since' = [since EXCEPT ![r] = table]
    /\ oldest' = [oldest EXCEPT ![r] =
                    [l \in Lists |-> Min({table[l]} \cup {since[q][l] : q \in Running})]]
    /\ UNCHANGED <<table, signal, at, snap, missed>>

\* The DELETE of web_device, web_secret or web_file; its failure, and a row
\* that is gone already, are passed over.
DeleteRow(r) ==
    /\ pc[r] = "deleting"
    /\ pc' = [pc EXCEPT ![r] = "reading"]
    /\ Edit(kind[r]) \/ UNCHANGED table
    /\ UNCHANGED <<signal, kind, at, snap, history>>

\* A device that is not in the table: web_device redirects at once.
NotOwned(r) ==
    /\ pc[r] = "deleting"
    /\ kind[r] = "devices"
    /\ End({r}, "redirected")
    /\ UNCHANGED <<table, signal, missed>>

Read(r, version) ==
    /\ pc[r] = "reading"
    /\ snap' = [snap EXCEPT ![r][List(r)] = version]
    /\ Advance(r)
    /\ pc' = [pc EXCEPT ![r] = IF IsLast(r) THEN "setting" ELSE @]
    /\ UNCHANGED <<table, signal, kind, since, oldest>>

ReadList(r) == Read(r, table[List(r)]) /\ UNCHANGED missed

\* unwrap_or_default: a select that fails reads as an empty list.
ReadFails(r) == Read(r, None) /\ missed' = missed \cup {List(r)}

Publish_Mutant(r) ==
    signal' = IF List(r) = "files" THEN signal ELSE [signal EXCEPT ![List(r)] = snap[r][List(r)]]

\* signals.set, whatever has been set since the list was read.
Publish(r) == signal' = [signal EXCEPT ![List(r)] = snap[r][List(r)]]

SetSignal(r) ==
    /\ pc[r] = "setting"
    /\ Publish(r)
    /\ IF IsLast(r) /\ kind[r] # "index"
       THEN End({r}, "redirected")
       ELSE /\ snap' = [snap EXCEPT ![r][List(r)] = None]
            /\ Advance(r)
            /\ pc' = [pc EXCEPT ![r] = IF IsLast(r) THEN "rendering" ELSE @]
            /\ UNCHANGED <<kind, since, oldest>>
    /\ UNCHANGED <<table, missed>>

\* dashboard puts the signals, one region after the other, into the page;
\* what it may find there while it does is what StalenessBounded is about.
Serve(r) ==
    /\ pc[r] = "rendering"
    /\ End({r}, "served")
    /\ UNCHANGED <<table, signal, missed>>

HangUp(r) ==
    /\ pc[r] \in {"deleting", "reading"}
    /\ End({r}, "idle")
    /\ UNCHANGED <<table, signal, missed>>

\* The server stops and starts: the signals are seeded.
Restart ==
    /\ End(Requests, "idle")
    /\ signal' = Empty
    /\ UNCHANGED <<table, missed>>

-----------------------------------------------------------------------------

Handler(r) == DeleteRow(r) \/ ReadList(r) \/ SetSignal(r) \/ Serve(r)

Next ==
    \/ \E r \in Requests :
          \/ Handler(r) \/ NotOwned(r) \/ ReadFails(r) \/ HangUp(r)
          \/ \E k \in Lists \cup {"index"} : Begin(r, k)
    \/ \E l \in Lists : ApiEdit(l)
    \/ Restart

Spec == Init /\ [][Next]_vars

\* The runtime polls every handler that can go on; nothing makes a client ask
\* or hang up, a table change, or the server stop.
Fairness == \A r \in Requests : WF_vars(Handler(r))

FairSpec == Spec /\ Fairness

-----------------------------------------------------------------------------

\* The values of the tables, the signals and the requests' records.
TypeOK ==
    /\ table \in [Lists -> Versions]
    /\ signal \in [Lists -> Versions \cup {None}]
    /\ pc \in [Requests -> Rest \cup {"deleting", "reading", "setting", "rendering"}]
    /\ kind \in [Requests -> Lists \cup {"index"}]
    /\ at \in [Requests -> 1 .. Len(Order)]
    /\ snap \in [Requests -> [Lists -> Versions \cup {None}]]
    /\ since \in [Requests -> [Lists -> Versions]]
    /\ oldest \in [Requests -> [Lists -> Versions]]
    /\ missed \subseteq Lists

\* A page is never staler than the requests it shares the signals with: what
\* it finds in a signal at any point of its rendering is from no earlier than
\* its own request, or than the earliest one that was still running when it
\* came in; and an empty list only after a select has failed.  One that came
\* in alone shows every change made before it, also those of the API (web.rs
\* refresh, index).
StalenessBounded ==
    \A r \in Requests, l \in Lists :
        pc[r] = "rendering" =>
            IF signal[l] = None THEN l \in missed
            ELSE oldest[r][l] <= signal[l] /\ signal[l] <= table[l]

Settled == \A l \in Lists : signal[l] = table[l]

Disturbance ==
    \/ \E l \in Lists : table'[l] # table[l]
    \/ missed' # missed \/ \E r \in Requests : ReadFails(r)
    \/ Restart

\* The signals settle: when the tables stay, selects stop failing and pages
\* go on being served, then the lists on all of them are right for good,
\* though refreshes that read before the last change may still overwrite the
\* newer ones for a while (web.rs refresh).
Settles ==
    (<>[][~Disturbance]_vars /\ []<><<\E r \in Requests : Serve(r)>>_vars) => <>[]Settled
=============================================================================
