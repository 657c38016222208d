------------------------------ MODULE EffectStore ------------------------------
(***************************************************************************)
(* What a force-feedback device promises to user space about its effects:  *)
(* a store from effect identifiers to sounds.  A call that reports success *)
(* did exactly what was asked to the effect it names; a call that reports  *)
(* failure may leave that one effect in any condition; no call ever        *)
(* disturbs an effect it does not name.                                    *)
(***************************************************************************)
CONSTANTS
    Ids,        \* effect identifiers handed out by the input core
    Sounds,     \* everything an effect can be made to play
    Absent      \* the effect is not loaded

VARIABLES
    store,      \* what each effect plays
    call        \* the last call: its operation, effect, request and result

vars == <<store, call>>

Calls ==
    [op : {"upload"}, id : Ids, req : Sounds, ok : BOOLEAN]
        \cup [op : {"erase"}, id : Ids, req : {Absent}, ok : BOOLEAN]

TypeOK ==
    /\ store \in [Ids -> Sounds \cup {Absent}]
    /\ call \in Calls \cup {Absent}

Init ==
    /\ store = [i \in Ids |-> Absent]
    /\ call = Absent

(* Loading effect id with sound s, reported as successful. *)
Upload(id, s) ==
    /\ call' = [op |-> "upload", id |-> id, req |-> s, ok |-> TRUE]
    /\ store' = [store EXCEPT ![id] = s]

(* Removing effect id, reported as successful. *)
Erase(id) ==
    /\ call' = [op |-> "erase", id |-> id, req |-> Absent, ok |-> TRUE]
    /\ store' = [store EXCEPT ![id] = Absent]

(* An upload that reports failure leaves effect id, and only it, undefined. *)
UploadFails(id, s) ==
    /\ call' = [op |-> "upload", id |-> id, req |-> s, ok |-> FALSE]
    /\ \E t \in Sounds \cup {Absent} : store' = [store EXCEPT ![id] = t]

(* An erase that reports failure leaves every effect as it was. *)
EraseFails(id) ==
    /\ call' = [op |-> "erase", id |-> id, req |-> Absent, ok |-> FALSE]
    /\ UNCHANGED store

Next ==
    \E id \in Ids :
        \/ \E s \in Sounds : Upload(id, s) \/ UploadFails(id, s)
        \/ Erase(id)
        \/ EraseFails(id)

Spec == Init /\ [][Next]_vars
================================================================================
