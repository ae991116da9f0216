------------------------------ MODULE KeyPool -------------------------------
(***************************************************************************)
(* The provider keys of one Generator (generator.py, provider_policy.py):  *)
(* the threads of concurrent requests rotate over one or two clients, put  *)
(* a client that answers 429 on a cooldown, and sleep when every client    *)
(* cools down.  Selecting and cooling down are done under a lock, sleeping *)
(* and calling are not.                                                    *)
(*                                                                         *)
(* Times are what is left of them, and pass together (Elapse).             *)
(***************************************************************************)
EXTENDS Naturals, Sequences

CONSTANTS
    Callers,     \* threads
    Retries,     \* retries of a call after a 429 (GROQ_MAX_RETRIES)
    Delays       \* delays that a 429 may ask for

ASSUME PoolAssumption ==
    /\ Retries \in Nat /\ Delays \subseteq Nat \ {0}

VARIABLES
    pool,      \* the keys of the clients, in their order
    cursor,    \* _client_cursor
    cooling,   \* what is left of the cooldown of each client
    call       \* the calls of _create_groq_chat_completion
keyVars == <<pool, cursor, cooling, call>>

-----------------------------------------------------------------------------
\* configured_groq_keys: primary, then another fallback, or primary only.
Configured(policy, primary, fallback) ==
    IF policy = "key5_only" THEN (IF primary = "" THEN << >> ELSE <<primary>>)
    ELSE SelectSeq(IF primary = fallback THEN <<primary>> ELSE <<primary, fallback>>,
                   LAMBDA key : key # "")
Positions == 1..Len(pool)
NoCall == [at |-> "idle", client |-> 0, wait |-> 0, attempt |-> 0, delay |-> 0, overtaken |-> FALSE]

KeyInit ==
    /\ \E policy \in {"pool", "key5_only"}, primary \in {"", "first"}, fallback \in {"", "first", "second"} :
         pool = Configured(policy, primary, fallback)
    /\ pool # << >>
    /\ cursor = 1
    /\ cooling = [n \in Positions |-> 0]
    /\ call = [c \in Callers |-> NoCall]

-----------------------------------------------------------------------------
\* Clients in the order of the turn, the one whose turn it is first.
Offset(n) == (n + Len(pool) - cursor) % Len(pool)
Ready == {n \in Positions : cooling[n] = 0}
Chosen(n) ==
    IF Ready # {} THEN n \in Ready /\ \A m \in Ready : Offset(n) <= Offset(m)
    ELSE \A m \in Positions : cooling[n] < cooling[m] \/ (cooling[n] = cooling[m] /\ n <= m)

Call(c) ==
    /\ call[c].at = "idle"
    /\ call' = [call EXCEPT ![c] = [NoCall EXCEPT !.at = "select"]]
    /\ UNCHANGED <<pool, cursor, cooling>>

\* _next_available_client: a ready client, or the one that is ready soonest.
Select(c) == \E n \in Positions :
    /\ call[c].at = "select"
    /\ Chosen(n)
    /\ cursor' = (n % Len(pool)) + 1
    /\ call' = [call EXCEPT ![c].at = "wait", ![c].client = n, ![c].wait = cooling[n],
                            ![c].overtaken = FALSE]
    /\ UNCHANGED <<pool, cooling>>

\* After the sleep the cooldown is not looked at again.
Submit(c) ==
    /\ call[c].at = "wait" /\ call[c].wait = 0
    /\ call' = [call EXCEPT ![c].at = "sent", ![c].attempt = @ + 1]
    /\ UNCHANGED <<pool, cursor, cooling>>

\* An answer, an error other than a 429, or a 429 after the last retry.
Conclude(c) ==
    /\ call[c].at = "sent"
    /\ call' = [call EXCEPT ![c] = NoCall]
    /\ UNCHANGED <<pool, cursor, cooling>>

RateLimited(c) == \E d \in Delays :
    /\ call[c].at = "sent" /\ call[c].attempt <= Retries
    /\ call' = [call EXCEPT ![c].at = "cool", ![c].delay = d]
    /\ UNCHANGED <<pool, cursor, cooling>>

\* Mutant: the last 429 decides, not the longest cooldown.
LaterCooldownLast(left, delay) == delay
LaterCooldown(left, delay) == IF left < delay THEN delay ELSE left

\* _cool_down_client.
CoolDown(c) ==
    LET n == call[c].client IN
    /\ call[c].at = "cool"
    /\ cooling' = [cooling EXCEPT ![n] = LaterCooldown(@, call[c].delay)]
    /\ call' = [d \in Callers |->
                  IF d = c THEN [call[c] EXCEPT !.at = "select"]
                  ELSE IF call[d].at = "wait" /\ call[d].client = n
                       THEN [call[d] EXCEPT !.overtaken = TRUE] ELSE call[d]]
    /\ UNCHANGED <<pool, cursor>>

Less(left) == IF left = 0 THEN 0 ELSE left - 1
Elapse ==
    /\ \E n \in Positions : cooling[n] > 0
    /\ cooling' = [n \in Positions |-> Less(cooling[n])]
    /\ call' = [c \in Callers |-> [call[c] EXCEPT !.wait = Less(@)]]
    /\ UNCHANGED <<pool, cursor>>

Proceed(c) == Select(c) \/ Submit(c) \/ Conclude(c) \/ RateLimited(c) \/ CoolDown(c)
KeyNext == (\E c \in Callers : Call(c) \/ Proceed(c)) \/ Elapse
KeySpec == KeyInit /\ [][KeyNext]_keyVars

-----------------------------------------------------------------------------
\* Nobody sleeps while a client is ready, although other callers extend
\* cooldowns and select clients in the meantime.
SleepersHaveNoKey ==
    \A c \in Callers : call[c].at = "wait" /\ call[c].wait > 0 =>
        \A n \in Positions : cooling[n] >= call[c].wait

\* A request goes to a client that is cooling down only when the 429 was
\* received by another caller after this one had selected the client.
EarlyIsOvertaken ==
    \A c \in Callers : call[c].at = "wait" /\ call[c].wait = 0 =>
        cooling[call[c].client] = 0 \/ call[c].overtaken

\* A call sleeps only while no client is ready, and uses a client that cools
\* down only when the 429 came to another call in between.
CooldownsAreKept == SleepersHaveNoKey /\ EarlyIsOvertaken

\* Every call returns or raises, however many 429s it meets.
CallsEnd == \A c \in Callers : (call[c].at # "idle") ~> (call[c].at = "idle")
=============================================================================
