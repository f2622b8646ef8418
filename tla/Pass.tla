-------------------------------- MODULE Pass --------------------------------
(***************************************************************************)
(* One pass of process_stream as a function of the rows it selected and of *)
(* the sessions table it finds.  From the INSERT that opens its first      *)
(* session until its COMMIT nobody else can write, so that what happens in *)
(* between depends on nothing else; Detector.tla has the same pass row by  *)
(* row.                                                                    *)
(***************************************************************************)
EXTENDS Sessionizer, SessionStore

NoProgress(table) ==
    [open |-> <<>>, states |-> <<>>, table |-> table, owner |-> <<>>,
     alerts |-> <<>>, refused |-> FALSE]

\* on_message and assign, with ended_at kept up to date instead of flushed.
Placed(pass, mid, row, key, sid, mme, st) ==
    [pass EXCEPT
        !.open = Put(@, key, Entry(sid, row, mme)),
        !.states = Put(@, sid, ObserveAll(st, mid, row)),
        !.table[sid].endedAt = row.ts,
        !.owner = Put(@, mid, sid),
        !.alerts = @ \o AlertsOf(sid, st, mid, row)]

Opened(pass, mid, row, key) ==
    IF \E i \in DOMAIN pass.table : Clash(pass.table[i], NewSession(key, row))
    THEN [pass EXCEPT !.refused = TRUE]
    ELSE Placed([pass EXCEPT !.table = Append(@, NewSession(key, row))],
                mid, row, key, Len(pass.table) + 1, row.mme, NoState)

Reused(pass, mid, row, key) ==
    LET sid == pass.open[key].session
    IN  Placed(pass, mid, row, key, sid, Latch(pass.open[key].mme, row),
               pass.states[sid])

\* One turn of the loop, as the set of its one outcome; an exception ends it.
RowRead(pass, mid, row) ==
    IF pass.refused \/ row.enb = None \/ Resolve(pass.open, row) = {} THEN {pass}
    ELSE {IF Reusable(pass.open, key, row) THEN Reused(pass, mid, row, key)
                                           ELSE Opened(pass, mid, row, key) :
            key \in Resolve(pass.open, row)}

\* ORDER BY ts, message_id.
Ordered(table, rowIds) ==
    [i \in 1 .. Cardinality(rowIds) |->
        CHOOSE m \in rowIds :
            Cardinality({n \in rowIds : Before(table, n, m)}) = i - 1]

\* What the loop has made of the first i rows, for every i.
Turns(table, rowIds, found) ==
    LET order == Ordered(table, rowIds)
        after[i \in 0 .. Cardinality(rowIds)] ==
            IF i = 0 THEN {NoProgress(found)}
            ELSE UNION {RowRead(pass, order[i], table[order[i]]) : pass \in after[i - 1]}
    IN  after

Outcomes(rowIds, found) == Turns(messages, rowIds, found)[Cardinality(rowIds)]
=============================================================================
