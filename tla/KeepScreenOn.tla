----------------------------- MODULE KeepScreenOn -----------------------------
(***************************************************************************)
(* The action "keep-screen-on" (src/src/keep-screen-on.c): asks            *)
(* Unity.Screen on the system bus to keep the display on, and takes the    *)
(* request back by the cookie it was given.  A change of the action's      *)
(* state is a toggle, whatever state was asked for.                        *)
(*                                                                         *)
(* Unity.Screen is the environment.  A call fails without effect, which    *)
(* changes nothing, or only its reply is lost.                             *)
(***************************************************************************)
EXTENDS Integers

CONSTANT Cookies  \* what Unity.Screen numbers its requests with

(* A cookie of 0 would be taken for none.                                    *)
ASSUME CookiesAssumption == Cookies \subseteq Nat \ {0}

VARIABLES
    keep_screen_on, \* the action's state
    request_id,     \* the cookie of our request, or 0
    held,           \* requests of ours that keep the display on
    unheard         \* history: those whose reply was lost, or whose process is gone

kso_vars == <<keep_screen_on, request_id, held, unheard>>

KSOInit ==
    /\ keep_screen_on = FALSE
    /\ request_id = 0
    /\ held = {}
    /\ unheard = {}

(* The request is granted and its cookie heard, or the reply is lost.        *)
keepDisplayOn(c) ==
    /\ ~keep_screen_on /\ c \notin held
    /\ held' = held \cup {c}
    /\ \/ /\ keep_screen_on' = TRUE
          /\ request_id' = c
          /\ UNCHANGED unheard
       \/ /\ unheard' = unheard \cup {c}
          /\ UNCHANGED <<keep_screen_on, request_id>>

(* Mistake: the request counts as taken back although the call has failed.   *)
Bug_RemovalAlwaysCounts ==
    /\ keep_screen_on' = FALSE
    /\ request_id' = 0

RemovalFailed == UNCHANGED <<keep_screen_on, request_id>>

(* The request is taken back and its reply heard, or lost, or the call has   *)
(* failed; without a request there is nothing to take back.                  *)
removeDisplayOnRequest ==
    /\ keep_screen_on /\ request_id # 0
    /\ \/ /\ held' = held \ {request_id}
          /\ keep_screen_on' = FALSE
          /\ request_id' = 0
       \/ /\ held' \in {held, held \ {request_id}}
          /\ RemovalFailed
    /\ UNCHANGED unheard

(* Unity.Screen restarts and forgets its requests.                           *)
UnityScreenRestarts ==
    /\ held # {}
    /\ held' = {}
    /\ unheard' = {}
    /\ UNCHANGED <<keep_screen_on, request_id>>

(* The service is started anew.  Nothing takes back its request when it      *)
(* ends; Unity.Screen may notice that its client is gone.                    *)
KSORestart ==
    /\ keep_screen_on' = FALSE
    /\ request_id' = 0
    /\ held' \in {held, {}}
    /\ unheard' = held'

KSONext ==
    \/ \E c \in Cookies : keepDisplayOn(c)
    \/ removeDisplayOnRequest
    \/ UnityScreenRestarts
=============================================================================
