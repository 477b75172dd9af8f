----------------------------- MODULE WeComToken -----------------------------
(***************************************************************************)
(* The access token of the WeCom gateway (WeComAccessTokenCache in         *)
(* apps/gateway-wecom): a token is kept with the time until which it is    *)
(* taken for valid, counted from when it was asked for, and overlapping    *)
(* sends that find none each ask for one; the last answer is kept.  The    *)
(* service may answer with a new token or with the one that is still valid.*)
(***************************************************************************)
EXTENDS Naturals

CONSTANTS
  Sends,               \* sends that need a token
  Lifetime, Margin,    \* of a token, and what must be left of it
  MaxTime, MaxTokens, MaxFaults

VARIABLES
  now,
  ends,      \* when the service expires each token it has issued
  current,   \* the cached token, and until when it counts as valid
  call,      \* what each send is at
  faults

vars == <<now, ends, current, call, faults>>

None   == 0
Tokens == 1..MaxTokens
Issued == {t \in Tokens : ends[t] # None}
Idle   == [pc |-> "idle", since |-> 0, token |-> None, until |-> 0]

Init ==
  /\ now = 1 /\ ends = [t \in Tokens |-> None] /\ current = [token |-> None, until |-> 0]
  /\ call = [s \in Sends |-> Idle] /\ faults = 0

Tick == now < MaxTime /\ now' = now + 1 /\ UNCHANGED <<ends, current, call, faults>>

\* get(): a token that lasts a margin longer is handed out, or one is asked for.
Get(s) ==
  /\ call[s].pc = "idle"
  /\ call' = [call EXCEPT ![s] =
       IF current.token # None /\ current.until > now + Margin
       THEN [pc |-> "cached", since |-> now, token |-> current.token, until |-> current.until]
       ELSE [@ EXCEPT !.pc = "asking", !.since = now]]
  /\ UNCHANGED <<now, ends, current, faults>>

\* gettoken at the service: until is what expires_in will be added up to.
GetToken(s) ==
  /\ call[s].pc = "asking"
  /\ \E t \in Tokens :
       /\ \/ ends[t] > now /\ UNCHANGED ends
          \/ ends[t] = None /\ (\A u \in Tokens : u < t => ends[u] # None)
             /\ ends' = [ends EXCEPT ![t] = now + Lifetime]
       /\ call' = [call EXCEPT ![s].pc = "answering", ![s].token = t,
                               ![s].until = call[s].since + (ends'[t] - now)]
  /\ UNCHANGED <<now, current, faults>>

\* Mutant: the time counts from the answer.
KeepFromNow(s) ==
  /\ call[s].pc = "answering"
  /\ current' = [token |-> call[s].token, until |-> call[s].until + (now - call[s].since)]
  /\ call' = [call EXCEPT ![s].pc = "loaded"]
  /\ UNCHANGED <<now, ends, faults>>

\* The answer is kept whatever was kept meanwhile.
Keep(s) ==
  /\ call[s].pc = "answering"
  /\ current' = [token |-> call[s].token, until |-> call[s].until]
  /\ call' = [call EXCEPT ![s].pc = "loaded"]
  /\ UNCHANGED <<now, ends, faults>>

\* gettoken fails, and the send with it.
GetTokenFails(s) ==
  /\ call[s].pc \in {"asking", "answering"} /\ faults < MaxFaults /\ faults' = faults + 1
  /\ call' = [call EXCEPT ![s] = Idle]
  /\ UNCHANGED <<now, ends, current>>

SendIsOver(s) ==
  /\ call[s].pc \in {"cached", "loaded"} /\ call' = [call EXCEPT ![s] = Idle]
  /\ UNCHANGED <<now, ends, current, faults>>

Next ==
  \/ Tick
  \/ \E s \in Sends : Get(s) \/ GetToken(s) \/ Keep(s) \/ GetTokenFails(s) \/ SendIsOver(s)

Spec == Init /\ [][Next]_vars

-----------------------------------------------------------------------------
\* The type of every variable.
TypeOK ==
  /\ now \in 1..MaxTime /\ ends \in [Tokens -> 0..(MaxTime + Lifetime)]
  /\ current \in [token : 0..MaxTokens, until : 0..(MaxTime + Lifetime)]
  /\ \A s \in Sends : /\ call[s].pc \in {"idle", "asking", "answering", "cached", "loaded"}
                      /\ call[s].token \in 0..MaxTokens /\ call[s].since \in 0..MaxTime
  /\ faults \in 0..MaxFaults

\* A token from the cache is valid for the margin from when it is handed out,
\* whichever of several answers was kept and however long they took.
CachedTokensServe ==
  /\ current.token # None => current.until <= ends[current.token]
  /\ \A s \in Sends : call[s].pc = "cached" => ends[call[s].token] > call[s].since + Margin
=============================================================================
