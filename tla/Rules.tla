------------------------------- MODULE Rules --------------------------------
(***************************************************************************)
(* The two detection rules of ALL_RULES as functions of a session's rule   *)
(* state and the message observed.  The engine gives each rule a dict of   *)
(* its own per session; the record below is both dicts together, an absent *)
(* key being FALSE or None, as dict.get reads it.                          *)
(*                                                                         *)
(* Here and in the other modules a definition named M... is the plausible  *)
(* mistake in the definition after it: with it in place a property fails.  *)
(***************************************************************************)
EXTENDS Messages

RuleState == [imsiFired     : BOOLEAN,
              akaFired      : BOOLEAN,
              attachSeen    : BOOLEAN,
              authReq       : BOOLEAN,
              authCompleted : BOOLEAN,
              authFailure   : Nat \cup {None}]  \* message_id of the failure

\* on_open gives every rule an empty dict.
NoState == [imsiFired |-> FALSE, akaFired |-> FALSE, attachSeen |-> FALSE,
            authReq |-> FALSE, authCompleted |-> FALSE, authFailure |-> None]

AlertKinds == {"imsi", "skipped", "failed", "unanswered"}

RuleOf(kind) == IF kind = "imsi" THEN "imsi_cleartext_attach"
                                 ELSE "aka_skipped_or_failed"

Alert == [session  : Nat,
          trigger  : Nat,       \* trigger_message_id
          kind     : AlertKinds,
          severity : 1 .. 10]

-----------------------------------------------------------------------------
(* Rule imsi_cleartext_attach                                              *)

MImsiFires(st, row) ==
    row.type = "AttachRequest" /\ row.identity = "IMSI"

ImsiFires(st, row) ==
    row.type = "AttachRequest" /\ ~st.imsiFired /\ row.identity = "IMSI"

ImsiObserve(st, row) ==
    IF row.type = "AttachRequest" THEN [st EXCEPT !.imsiFired = TRUE] ELSE st

-----------------------------------------------------------------------------
(* Rule aka_skipped_or_failed                                              *)

PostAuth == {"SecurityModeCommand", "AttachAccept"}

\* Only a session that showed an AttachRequest and has not fired is judged.
AkaJudges(st) == st.attachSeen /\ ~st.akaFired

AkaFires(st, row) ==
    AkaJudges(st) /\ row.type \in PostAuth /\ ~st.authCompleted

AkaKind(st) == IF ~st.authReq THEN "skipped"
               ELSE IF st.authFailure # None THEN "failed" ELSE "unanswered"

AkaTrigger(st, mid) ==
    IF AkaKind(st) = "failed" THEN st.authFailure ELSE mid

\* A new challenge that leaves the answer to the previous one standing.
MAkaCompleted(st, row) ==
    st.authCompleted
    \/ (AkaJudges(st) /\ st.authReq /\ row.type = "AuthenticationResponse")

\* Whether the pending challenge is answered: a new one voids the answer.
AkaCompleted(st, row) ==
    /\ ~(AkaJudges(st) /\ row.type = "AuthenticationRequest")
    /\ \/ st.authCompleted
       \/ AkaJudges(st) /\ st.authReq /\ row.type = "AuthenticationResponse"

\* A new challenge that leaves the failure of the previous one standing.
MAkaFailure(st, mid, row) ==
    IF AkaJudges(st) /\ st.authReq /\ row.type = "AuthenticationFailure"
    THEN mid ELSE st.authFailure

AkaFailure(st, mid, row) ==
    IF AkaJudges(st) /\ row.type = "AuthenticationRequest" THEN None
    ELSE IF AkaJudges(st) /\ st.authReq /\ row.type = "AuthenticationFailure"
    THEN mid ELSE st.authFailure

AkaObserve(st, mid, row) ==
    [imsiFired     |-> st.imsiFired,
     attachSeen    |-> st.attachSeen \/ (~st.akaFired /\ row.type = "AttachRequest"),
     authReq       |-> \/ st.authReq
                       \/ AkaJudges(st) /\ row.type = "AuthenticationRequest",
     authCompleted |-> AkaCompleted(st, row),
     authFailure   |-> AkaFailure(st, mid, row),
     akaFired      |-> st.akaFired \/ AkaFires(st, row)]

-----------------------------------------------------------------------------
(* Fan-out of one message to both rules, in the order of ALL_RULES.        *)

ObserveAll(st, mid, row) == AkaObserve(ImsiObserve(st, row), mid, row)

AlertsOf(sid, st, mid, row) ==
    (IF ImsiFires(st, row)
       THEN <<[session |-> sid, trigger |-> mid, kind |-> "imsi", severity |-> 5]>>
       ELSE <<>>)
    \o
    (IF AkaFires(st, row)
       THEN <<[session |-> sid, trigger |-> AkaTrigger(st, mid),
               kind |-> AkaKind(st), severity |-> 8]>>
       ELSE <<>>)
=============================================================================
