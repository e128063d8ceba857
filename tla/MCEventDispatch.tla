-------------------------- MODULE MCEventDispatch --------------------------
(* Two units.  The first carries an ordinary status and a boost of the      *)
(* property, the second a status whose watcher watches that property.       *)
EXTENDS EventDispatch

MCUnitOrder == <<"u0", "u1">>
MCInstances == {"plain", "boost", "watch"}
MCOwner == [i \in MCInstances |-> IF i = "plain" THEN "u0" ELSE "u1"]
MCModifier == [i \in MCInstances |-> i]
MCBoosting == {"boost"}
MCWatched == {"watch"}

MCCallbacks == {"hurt", "grant", "hear", "gift", "enter", "exit"}
MCOf == [c \in MCCallbacks |-> CASE c \in {"hurt", "grant", "gift"} -> "plain"
                                 [] c = "hear" -> "boost"
                                 [] OTHER -> "watcher"]
MCOn == [c \in MCCallbacks |-> IF c \in {"hear", "gift"} THEN "custom.event"
                                                        ELSE "hp.change"]
MCScope == [c \in MCCallbacks |-> IF c = "hurt" THEN "owner_local"
                                                ELSE "global_listener"]
MCRank == [c \in MCCallbacks |-> IF c = "grant" THEN 1 ELSE 0]

MCEnter == [i \in MCWatched |-> "enter"]
MCExit == [i \in MCWatched |-> "exit"]

Ch(k, u, i) == [kind |-> k, unit |-> u, inst |-> i]
MCEffects ==
    [c \in MCCallbacks |->
        CASE c = "hurt"  -> {Ch("none", "u0", "-"), Ch("custom", "u1", "-")}
          [] c = "hear"  -> {Ch("detach", "u1", "boost"), Ch("lower", "u1", "-")}
          [] c = "grant" -> {Ch("none", "u0", "-"), Ch("attach", "u1", "boost")}
          [] c = "gift"  -> {Ch("attach", "u1", "boost")}
          [] c = "enter" -> {Ch("raise", "u0", "-"), Ch("detach", "u1", "boost")}
          [] c = "exit"  -> {Ch("detach", "u1", "watch"), Ch("raise", "u1", "-")}]
=============================================================================
