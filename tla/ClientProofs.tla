---------------------------- MODULE ClientProofs ----------------------------
(***************************************************************************)
(* What the retries of the SDK can never do, for every number of retries   *)
(* and calls and every order of lost, late and refused attempts.           *)
(*                                                                         *)
(* The argument: a call that changes the service has one attempt, so that  *)
(* while that attempt is on the way nothing has happened, and once it is   *)
(* served nothing is left on the way.                                      *)
(***************************************************************************)
EXTENDS Client, TLAPS

USE ClientAssumption

Messages == [call : Calls, number : 1 .. MaxCalls, attempt : Nat]
Mutates(c) == ~ChangesNothing(c)

TypeOK ==
    /\ phase \in {"idle", "waiting", "backoff"}
    /\ call \in Calls
    /\ number \in 0 .. MaxCalls
    /\ attempt \in Nat
    /\ wire \subseteq Messages
    /\ effects \in [1 .. MaxCalls -> Nat]
    /\ refused \subseteq 1 .. MaxCalls
    /\ phase # "idle" => number \in 1 .. MaxCalls

(* Attempts on the way belong to calls that were made; a call that changes *)
(* the service is attempted once, and its attempt on the way has not taken *)
(* effect.                                                                 *)
OneAttempt ==
    /\ \A m \in wire : m.number <= number /\ (m.number = number => m.call = call)
    /\ \A m, w \in wire : m.number = w.number => m.call = w.call
    /\ \A m \in wire : Mutates(m.call) => m.attempt = 1 /\ effects[m.number] = 0
    /\ \A n \in 1 .. MaxCalls : n > number => effects[n] = 0
    /\ phase = "waiting" /\ Mutates(call) => attempt = 1
    /\ phase = "backoff" => ChangesNothing(call)
    /\ phase # "idle" /\ ChangesNothing(call) => effects[number] = 0

Served == phase = "waiting" /\ answer # "none"
CallOnWire == \E m \in wire : m.number = number /\ Mutates(m.call)

Refusals ==
    /\ \A n \in refused :
           /\ n <= number
           /\ n = number => phase = "idle"
           /\ effects[n] = 0
           /\ \A m \in wire : m.number = n => ChangesNothing(m.call)
    /\ Served => ~CallOnWire
    /\ phase = "waiting" /\ answer = "4xx" => effects[number] = 0

Accounted ==
    /\ \/ role = acknowledged
       \/ role \in unanswered
       \/ phase = "waiting" /\ IsAcl(call) /\ answer = "ok" /\ role = call.role
    /\ phase = "waiting" /\ IsAcl(call) /\ answer = "ok" => role \in unanswered \cup {call.role}
    /\ \A m \in wire : IsAcl(m.call) =>
           \/ m.call.role \in unanswered
           \/ phase = "waiting" /\ answer = "none" /\ m.number = number

Inv == TypeOK /\ TakesEffectOnce /\ OneAttempt /\ Refusals /\ Accounted

---------------------------------------------------------------------------
LEMMA AclMutates == \A c : IsAcl(c) => Mutates(c)
BY DEF IsAcl, Mutates, ChangesNothing, DryRun

LEMMA Retried ==
    \A c : /\ Idempotent(c) <=> ChangesNothing(c)
           /\ Mutates(c) => Attempts(c) = 1
BY DEF Idempotent, ChangesNothing, Mutates, Attempts

LEMMA InvInit == Init => Inv
<1> SUFFICES ASSUME Init PROVE Inv
  OBVIOUS
<1>1. [op |-> "read"] \in Calls
  BY DEF Calls, Plain
<1>2. ~IsAcl([op |-> "read"]) /\ ChangesNothing([op |-> "read"])
  BY DEF IsAcl, ChangesNothing
<1> QED
  BY <1>1, <1>2
  DEF Init, Inv, TypeOK, TakesEffectOnce, OneAttempt, Refusals, Accounted, Served, CallOnWire


---------------------------------------------------------------------------
(* The steps of the client.                                                *)
LEMMA BeginSafe ==
    ASSUME Inv, NEW c \in Calls, Begin(c)
    PROVE  Inv'
<1>1. TypeOK'
  BY AclMutates, Retried 
     DEF Inv, TypeOK, TakesEffectOnce, OneAttempt, Refusals, Accounted,
         Served, CallOnWire, Messages, Mutates,
         Begin, Send, Message, service, history
<1>2. TakesEffectOnce'
  BY AclMutates, Retried 
     DEF Inv, TypeOK, TakesEffectOnce, OneAttempt, Refusals, Accounted,
         Served, CallOnWire, Messages, Mutates,
         Begin, Send, Message, service, history
<1>3. OneAttempt'
  BY AclMutates, Retried 
     DEF Inv, TypeOK, TakesEffectOnce, OneAttempt, Refusals, Accounted,
         Served, CallOnWire, Messages, Mutates,
         Begin, Send, Message, service, history
<1>4. Refusals'
  BY AclMutates, Retried 
     DEF Inv, TypeOK, TakesEffectOnce, OneAttempt, Refusals, Accounted,
         Served, CallOnWire, Messages, Mutates,
         Begin, Send, Message, service, history
<1>5. Accounted'
  BY AclMutates, Retried 
     DEF Inv, TypeOK, TakesEffectOnce, OneAttempt, Refusals, Accounted,
         Served, CallOnWire, Messages, Mutates,
         Begin, Send, Message, service, history
<1> QED BY <1>1, <1>2, <1>3, <1>4, <1>5 DEF Inv

LEMMA ResendSafe ==
    ASSUME Inv, Resend
    PROVE  Inv'
<1>1. TypeOK'
  BY AclMutates, Retried 
     DEF Inv, TypeOK, TakesEffectOnce, OneAttempt, Refusals, Accounted,
         Served, CallOnWire, Messages, Mutates,
         Resend, Send, Message, service, history
<1>2. TakesEffectOnce'
  BY AclMutates, Retried 
     DEF Inv, TypeOK, TakesEffectOnce, OneAttempt, Refusals, Accounted,
         Served, CallOnWire, Messages, Mutates,
         Resend, Send, Message, service, history
<1>3. OneAttempt'
  BY AclMutates, Retried 
     DEF Inv, TypeOK, TakesEffectOnce, OneAttempt, Refusals, Accounted,
         Served, CallOnWire, Messages, Mutates,
         Resend, Send, Message, service, history
<1>4. Refusals'
  BY AclMutates, Retried 
     DEF Inv, TypeOK, TakesEffectOnce, OneAttempt, Refusals, Accounted,
         Served, CallOnWire, Messages, Mutates,
         Resend, Send, Message, service, history
<1>5. Accounted'
  BY AclMutates, Retried 
     DEF Inv, TypeOK, TakesEffectOnce, OneAttempt, Refusals, Accounted,
         Served, CallOnWire, Messages, Mutates,
         Resend, Send, Message, service, history
<1> QED BY <1>1, <1>2, <1>3, <1>4, <1>5 DEF Inv

LEMMA ReturnSafe ==
    ASSUME Inv, Return
    PROVE  Inv'
<1>1. TypeOK'
  BY AclMutates 
     DEF Inv, TypeOK, TakesEffectOnce, OneAttempt, Refusals, Accounted,
         Served, CallOnWire, Messages, Mutates,
         Return, Finish, service
<1>2. TakesEffectOnce'
  BY AclMutates 
     DEF Inv, TypeOK, TakesEffectOnce, OneAttempt, Refusals, Accounted,
         Served, CallOnWire, Messages, Mutates,
         Return, Finish, service
<1>3. OneAttempt'
  BY AclMutates 
     DEF Inv, TypeOK, TakesEffectOnce, OneAttempt, Refusals, Accounted,
         Served, CallOnWire, Messages, Mutates,
         Return, Finish, service
<1>4. Refusals'
  BY AclMutates 
     DEF Inv, TypeOK, TakesEffectOnce, OneAttempt, Refusals, Accounted,
         Served, CallOnWire, Messages, Mutates,
         Return, Finish, service
<1>5. Accounted'
  BY AclMutates 
     DEF Inv, TypeOK, TakesEffectOnce, OneAttempt, Refusals, Accounted,
         Served, CallOnWire, Messages, Mutates,
         Return, Finish, service
<1> QED BY <1>1, <1>2, <1>3, <1>4, <1>5 DEF Inv

LEMMA RefusedSafe ==
    ASSUME Inv, Refused
    PROVE  Inv'
<1>1. TypeOK'
  BY AclMutates 
     DEF Inv, TypeOK, TakesEffectOnce, OneAttempt, Refusals, Accounted,
         Served, CallOnWire, Messages, Mutates,
         Refused, Finish, service
<1>2. TakesEffectOnce'
  BY AclMutates 
     DEF Inv, TypeOK, TakesEffectOnce, OneAttempt, Refusals, Accounted,
         Served, CallOnWire, Messages, Mutates,
         Refused, Finish, service
<1>3. OneAttempt'
  BY AclMutates 
     DEF Inv, TypeOK, TakesEffectOnce, OneAttempt, Refusals, Accounted,
         Served, CallOnWire, Messages, Mutates,
         Refused, Finish, service
<1>4. Refusals'
  BY AclMutates 
     DEF Inv, TypeOK, TakesEffectOnce, OneAttempt, Refusals, Accounted,
         Served, CallOnWire, Messages, Mutates,
         Refused, Finish, service
<1>5. Accounted'
  BY AclMutates 
     DEF Inv, TypeOK, TakesEffectOnce, OneAttempt, Refusals, Accounted,
         Served, CallOnWire, Messages, Mutates,
         Refused, Finish, service
<1> QED BY <1>1, <1>2, <1>3, <1>4, <1>5 DEF Inv

LEMMA RetrySafe ==
    ASSUME Inv, phase = "waiting", Retry
    PROVE  Inv'
<1>1. TypeOK'
  BY AclMutates, Retried 
     DEF Inv, TypeOK, TakesEffectOnce, OneAttempt, Refusals, Accounted,
         Served, CallOnWire, Messages, Mutates,
         Retry, service, history
<1>2. TakesEffectOnce'
  BY AclMutates, Retried 
     DEF Inv, TypeOK, TakesEffectOnce, OneAttempt, Refusals, Accounted,
         Served, CallOnWire, Messages, Mutates,
         Retry, service, history
<1>3. OneAttempt'
  BY AclMutates, Retried 
     DEF Inv, TypeOK, TakesEffectOnce, OneAttempt, Refusals, Accounted,
         Served, CallOnWire, Messages, Mutates,
         Retry, service, history
<1>4. Refusals'
  BY AclMutates, Retried 
     DEF Inv, TypeOK, TakesEffectOnce, OneAttempt, Refusals, Accounted,
         Served, CallOnWire, Messages, Mutates,
         Retry, service, history
<1>5. Accounted'
  BY AclMutates, Retried 
     DEF Inv, TypeOK, TakesEffectOnce, OneAttempt, Refusals, Accounted,
         Served, CallOnWire, Messages, Mutates,
         Retry, service, history
<1> QED BY <1>1, <1>2, <1>3, <1>4, <1>5 DEF Inv

LEMMA GiveUpSafe ==
    ASSUME Inv, phase = "waiting", GiveUp
    PROVE  Inv'
<1>1. TypeOK'
  BY AclMutates 
     DEF Inv, TypeOK, TakesEffectOnce, OneAttempt, Refusals, Accounted,
         Served, CallOnWire, Messages, Mutates,
         GiveUp, Finish, service
<1>2. TakesEffectOnce'
  BY AclMutates 
     DEF Inv, TypeOK, TakesEffectOnce, OneAttempt, Refusals, Accounted,
         Served, CallOnWire, Messages, Mutates,
         GiveUp, Finish, service
<1>3. OneAttempt'
  BY AclMutates 
     DEF Inv, TypeOK, TakesEffectOnce, OneAttempt, Refusals, Accounted,
         Served, CallOnWire, Messages, Mutates,
         GiveUp, Finish, service
<1>4. Refusals'
  BY AclMutates 
     DEF Inv, TypeOK, TakesEffectOnce, OneAttempt, Refusals, Accounted,
         Served, CallOnWire, Messages, Mutates,
         GiveUp, Finish, service
<1>5. Accounted'
  BY AclMutates 
     DEF Inv, TypeOK, TakesEffectOnce, OneAttempt, Refusals, Accounted,
         Served, CallOnWire, Messages, Mutates,
         GiveUp, Finish, service
<1> QED BY <1>1, <1>2, <1>3, <1>4, <1>5 DEF Inv

---------------------------------------------------------------------------
(* The steps of the service.                                               *)
(* What an attempt that takes effect leaves: its call has no other, and    *)
(* had not taken effect.                                                   *)
LEMMA OnlyAttempt ==
    ASSUME Inv, NEW m \in wire, Mutates(m.call)
    PROVE  /\ m.number \in 1 .. MaxCalls /\ effects[m.number] = 0
           /\ m.number \notin refused
           /\ \A w \in wire \ {m} : w.number # m.number
           /\ phase = "waiting" /\ m.number = number => m = Message
<1>1. m \in Messages
  BY DEF Inv, TypeOK
<1>2. m.number \in 1 .. MaxCalls /\ effects[m.number] = 0 /\ m.number \notin refused
  BY <1>1 DEF Inv, OneAttempt, Refusals, Messages, Mutates
<1>3. ASSUME NEW w \in wire, w.number = m.number PROVE w = m
  <2>1. w \in Messages
    BY DEF Inv, TypeOK
  <2>2. w.call = m.call
    BY <1>3 DEF Inv, OneAttempt
  <2>3. w.attempt = 1 /\ m.attempt = 1
    BY <2>2 DEF Inv, OneAttempt
  <2> QED BY <1>1, <1>3, <2>1, <2>2, <2>3 DEF Messages
<1>4. ASSUME phase = "waiting", m.number = number PROVE m = Message
  <2>1. m.call = call
    BY <1>4 DEF Inv, OneAttempt
  <2>2. m.attempt = 1 /\ attempt = 1
    BY <1>4, <2>1 DEF Inv, OneAttempt
  <2> QED BY <1>1, <1>4, <2>1, <2>2 DEF Messages, Message
<1> QED BY <1>2, <1>3, <1>4

(* An attempt that changes nothing.                                        *)
LEMMA UntouchedSafe ==
    ASSUME Inv, NEW m \in wire, NEW status, Answer(m, status), UNCHANGED service,
           IsAcl(m.call) => status # "ok"
    PROVE  Inv'
<1>1. /\ wire' = wire \ {m} /\ UNCHANGED <<client, history, service>>
      /\ answer' = IF phase = "waiting" /\ m = Message THEN status ELSE answer
  BY DEF Answer
<1>2. TypeOK' /\ TakesEffectOnce'
  BY <1>1 DEF Inv, TypeOK, TakesEffectOnce, client, history, service
<1>3. OneAttempt'
  BY <1>1 DEF Inv, OneAttempt, Mutates, client, service
<1>4. CASE phase = "waiting" /\ m = Message
  <2>1. m.call = call /\ m.number = number
    BY <1>4 DEF Message
  <2>2. effects[number] = 0
    BY <2>1, <1>4 DEF Inv, OneAttempt, Mutates
  <2>3. ~CallOnWire'
    <3>1. CASE Mutates(m.call)
      BY <1>1, <2>1, <3>1, OnlyAttempt DEF CallOnWire, client
    <3>2. CASE ~Mutates(m.call)
      BY <1>1, <2>1, <3>2 DEF Inv, OneAttempt, CallOnWire, Mutates, client
    <3> QED BY <3>1, <3>2
  <2>4. Refusals'
    BY <1>1, <2>2, <2>3 DEF Inv, Refusals, client, history, service
  <2>5. Accounted'
    BY <1>1, <1>4, <2>1, AclMutates, OnlyAttempt DEF Inv, Accounted, client, history, service
  <2> QED BY <1>2, <1>3, <2>4, <2>5 DEF Inv
<1>5. CASE ~(phase = "waiting" /\ m = Message)
  <2>1. Refusals'
    BY <1>1, <1>5 DEF Inv, Refusals, Served, CallOnWire, client, history, service
  <2>2. Accounted'
    BY <1>1, <1>5 DEF Inv, Accounted, client, history, service
  <2> QED BY <1>2, <1>3, <2>1, <2>2 DEF Inv
<1> QED BY <1>4, <1>5

LEMMA TookSafe ==
    ASSUME Inv, NEW m \in wire, NEW status \in {"ok", "5xx"},
           Mutates(m.call), Took(m), Answer(m, status)
    PROVE  TypeOK' /\ TakesEffectOnce' /\ OneAttempt' /\ Refusals'
<1>1. /\ m.number \in 1 .. MaxCalls /\ effects[m.number] = 0
      /\ m.number \notin refused
      /\ \A w \in wire \ {m} : w.number # m.number
      /\ phase = "waiting" /\ m.number = number => m = Message
  BY OnlyAttempt
<1>2. /\ wire' = wire \ {m} /\ UNCHANGED <<phase, call, number, attempt, refused>>
      /\ answer' = IF phase = "waiting" /\ m = Message THEN status ELSE answer
  BY DEF Answer, client, history
<1>3. /\ effects' \in [1 .. MaxCalls -> Nat] /\ effects'[m.number] = 1
      /\ \A n \in 1 .. MaxCalls : n # m.number => effects'[n] = effects[n]
  BY <1>1 DEF Took, Inv, TypeOK
<1>4. TypeOK'
  BY <1>2, <1>3 DEF Inv, TypeOK, Messages
<1>5. TakesEffectOnce'
  BY <1>1, <1>3 DEF Inv, TypeOK, TakesEffectOnce
<1>6. OneAttempt'
  <2>1. \A w \in wire' : w \in wire /\ w.number \in 1 .. MaxCalls /\ w.number # m.number
    BY <1>1, <1>2 DEF Inv, TypeOK, Messages
  <2>2. m.number <= number /\ (m.number = number => m.call = call)
    BY DEF Inv, OneAttempt
  <2> QED BY <1>1, <1>2, <1>3, <2>1, <2>2 DEF Inv, TypeOK, OneAttempt, Mutates
<1>7. Refusals'
  <2>1. \A n \in refused : n \in 1 .. MaxCalls /\ effects'[n] = effects[n]
    BY <1>1, <1>3 DEF Inv, TypeOK
  <2>2. Served' => ~CallOnWire'
    <3>1. CASE m = Message
      BY <1>1, <1>2, <3>1 DEF Served, CallOnWire, Message
    <3>2. CASE m # Message
      BY <1>2, <3>2 DEF Inv, Refusals, Served, CallOnWire
    <3> QED BY <3>1, <3>2
  <2>3. (phase = "waiting" /\ answer = "4xx" => effects[number] = 0)'
    BY <1>1, <1>2, <1>3 DEF Inv, TypeOK, Refusals
  <2> QED BY <1>2, <2>1, <2>2, <2>3 DEF Inv, Refusals
<1> QED BY <1>4, <1>5, <1>6, <1>7

(* An attempt of another method leaves the user's role.                    *)
LEMMA OtherAccounted ==
    ASSUME Inv, NEW m \in wire, NEW status,
           ~IsAcl(m.call), Answer(m, status), role' = role
    PROVE  Accounted'
<1>1. phase = "waiting" /\ m = Message => ~IsAcl(call)
  BY DEF Message
<1>2. \A w \in wire : w.number = number => w.call = call
  BY DEF Inv, OneAttempt
<1> QED BY <1>1, <1>2 DEF Inv, Accounted, Answer, client, history

LEMMA ServeOtherSafe ==
    ASSUME Inv, NEW m \in wire, ServeOther(m)
    PROVE  Inv'
<1>1. Mutates(m.call) /\ ~IsAcl(m.call)
  BY DEF ServeOther, Mutates, ChangesNothing, DryRun, IsAcl
<1>2. role' = role
  BY DEF ServeOther
<1> PICK status \in {"ok", "5xx"} : Answer(m, status)
  BY DEF ServeOther
<1>3. Took(m)
  BY DEF ServeOther
<1> QED BY <1>1, <1>2, <1>3, TookSafe, OtherAccounted DEF Inv

LEMMA ServeCreateKbSafe ==
    ASSUME Inv, NEW m \in wire, ServeCreateKb(m)
    PROVE  Inv'
<1>1. Mutates(m.call) /\ ~IsAcl(m.call)
  BY DEF ServeCreateKb, Mutates, ChangesNothing, DryRun, IsAcl
<1>2. role' = role
  BY DEF ServeCreateKb, service
<1>3. CASE m.call.name \in names
  BY <1>1, <1>3, UntouchedSafe DEF ServeCreateKb
<1>4. CASE m.call.name \notin names
  BY <1>1, <1>2, <1>4, TookSafe, OtherAccounted DEF ServeCreateKb, Inv
<1> QED BY <1>3, <1>4

LEMMA ServeUploadSafe ==
    ASSUME Inv, NEW m \in wire, ServeUpload(m)
    PROVE  Inv'
<1>1. Mutates(m.call) /\ ~IsAcl(m.call)
  BY DEF ServeUpload, Mutates, ChangesNothing, DryRun, IsAcl
<1>2. role' = role
  BY DEF ServeUpload, service
<1>3. CASE m.call.content \in files
  BY <1>1, <1>3, UntouchedSafe DEF ServeUpload
<1>4. CASE m.call.content \notin files
  <2> PICK status \in {"ok", "5xx"} : Answer(m, status)
    BY <1>4 DEF ServeUpload
  <2>1. Took(m)
    BY <1>4 DEF ServeUpload
  <2> QED BY <1>1, <1>2, <2>1, TookSafe, OtherAccounted DEF Inv
<1> QED BY <1>3, <1>4

LEMMA ServeAclSafe ==
    ASSUME Inv, NEW m \in wire, ServeAcl(m)
    PROVE  Inv'
<1>1. Mutates(m.call) /\ IsAcl(m.call) /\ Took(m) /\ Answer(m, "ok") /\ role' = m.call.role
  BY AclMutates DEF ServeAcl
<1>2. TypeOK' /\ TakesEffectOnce' /\ OneAttempt' /\ Refusals'
  BY <1>1, TookSafe
<1>3. phase = "waiting" /\ m.number = number => m = Message
  BY <1>1, OnlyAttempt
<1>4. \A w \in wire \ {m} : w.number # m.number
  BY <1>1, OnlyAttempt
<1>5. Accounted'
  <2>1. CASE phase = "waiting" /\ m = Message
    BY <1>1, <1>4, <2>1 DEF Inv, Accounted, Answer, Message, client, history
  <2>2. CASE ~(phase = "waiting" /\ m = Message)
    BY <1>1, <1>3, <2>2 DEF Inv, Accounted, Answer, client, history
  <2> QED BY <2>1, <2>2
<1> QED BY <1>2, <1>5 DEF Inv

LEMMA ServeQuerySafe ==
    ASSUME Inv, NEW m \in wire, ServeQuery(m)
    PROVE  Inv'
BY UntouchedSafe, AclMutates DEF ServeQuery, Mutates

LEMMA RejectSafe ==
    ASSUME Inv, NEW m \in wire, Reject(m)
    PROVE  Inv'
<1> PICK status \in {"429", "4xx", "5xx"} : Answer(m, status)
  BY DEF Reject
<1> QED BY UntouchedSafe DEF Reject

LEMMA LoseSafe ==
    ASSUME Inv, NEW m \in wire, Lose(m)
    PROVE  Inv'
<1>1. TypeOK'
  BY AclMutates 
     DEF Inv, TypeOK, TakesEffectOnce, OneAttempt, Refusals, Accounted,
         Served, CallOnWire, Messages, Mutates,
         Lose, client, service, history
<1>2. TakesEffectOnce'
  BY AclMutates 
     DEF Inv, TypeOK, TakesEffectOnce, OneAttempt, Refusals, Accounted,
         Served, CallOnWire, Messages, Mutates,
         Lose, client, service, history
<1>3. OneAttempt'
  BY AclMutates 
     DEF Inv, TypeOK, TakesEffectOnce, OneAttempt, Refusals, Accounted,
         Served, CallOnWire, Messages, Mutates,
         Lose, client, service, history
<1>4. Refusals'
  BY AclMutates 
     DEF Inv, TypeOK, TakesEffectOnce, OneAttempt, Refusals, Accounted,
         Served, CallOnWire, Messages, Mutates,
         Lose, client, service, history
<1>5. Accounted'
  BY AclMutates 
     DEF Inv, TypeOK, TakesEffectOnce, OneAttempt, Refusals, Accounted,
         Served, CallOnWire, Messages, Mutates,
         Lose, client, service, history
<1> QED BY <1>1, <1>2, <1>3, <1>4, <1>5 DEF Inv

---------------------------------------------------------------------------
LEMMA InvNext == Inv /\ [Next]_clientVars => Inv'
<1> SUFFICES ASSUME Inv, [Next]_clientVars PROVE Inv'
  OBVIOUS
<1>1. ASSUME NEW c \in Calls, Begin(c) PROVE Inv'
  BY <1>1, BeginSafe
<1>2. CASE Resend
  BY <1>2, ResendSafe
<1>3. CASE Return
  BY <1>3, ReturnSafe
<1>4. CASE Refused
  BY <1>4, RefusedSafe
<1>5. CASE Unserved
  BY <1>5, RetrySafe, GiveUpSafe DEF Unserved
<1>6. ASSUME NEW m \in wire, Serve(m) \/ Reject(m) \/ Lose(m) PROVE Inv'
  <2>1. ASSUME Serve(m) PROVE Inv'
    BY <2>1, ServeQuerySafe, ServeOtherSafe, ServeCreateKbSafe, ServeUploadSafe,
       ServeAclSafe DEF Serve
  <2> QED BY <1>6, <2>1, RejectSafe, LoseSafe
<1>7. CASE UNCHANGED clientVars
  BY <1>7 DEF clientVars, client, service, history, Inv, TypeOK, TakesEffectOnce,
     OneAttempt, Refusals, Accounted, Served, CallOnWire
<1> QED BY <1>1, <1>2, <1>3, <1>4, <1>5, <1>6, <1>7 DEF Next, Service

(* The invariant the three theorems follow from.                           *)
THEOREM InvHolds == Spec => []Inv
BY InvInit, InvNext, PTL DEF Spec

(* A call of a method that is not idempotent takes effect at most once     *)
(* (client.py:71), dry runs never.                                         *)
THEOREM OnceTheorem == Spec => []TakesEffectOnce
<1>1. Inv => TakesEffectOnce
  BY DEF Inv
<1> QED BY <1>1, InvHolds, PTL

(* A call that raised a 4xx error has not taken effect (client.py:84).     *)
THEOREM RefusedTheorem == Spec => []RefusedDidNothing
<1>1. Inv => RefusedDidNothing
  BY DEF Inv, Refusals, RefusedDidNothing
<1> QED BY <1>1, InvHolds, PTL

(* The user's role is that of the last answered grant or revoke, or of one *)
(* whose outcome is unknown to the caller (client.py:168-175).             *)
THEOREM GrantTheorem == Spec => []GrantAccounted
<1>1. Inv => GrantAccounted
  BY DEF Inv, Accounted, GrantAccounted
<1> QED BY <1>1, InvHolds, PTL
=============================================================================
