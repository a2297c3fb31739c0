---------------------------- MODULE MCTriggerForm ----------------------------
(* TriggerForm with three devices, of which two can be set, and three triggers. *)
EXTENDS TriggerForm, TLC

CONSTANTS temp, lamp, mode, other, n1, n2, eco, heat, t1, anna, gone, zero, hour

MCWidgetOf == (temp :> "number") @@ (lamp :> "bool") @@ (mode :> "enum")
MCEnumOf == (temp :> <<>>) @@ (lamp :> <<>>) @@ (mode :> <<eco, heat>>)
OneNew == ("when" :> 1) @@ ("also" :> 0) @@ ("unless" :> 0) @@ ("then" :> 1)

When(c, also, op, unless) == [cond |-> c, also |-> also, op |-> op, unless |-> unless]
Trigger(when, then, cooldown, unshown) ==
    [there |-> TRUE, when |-> when, then |-> then, cooldown |-> cooldown, unshown |-> unshown]

\* Two thresholds, one exception for both.
Thresholds ==
    LET x == <<Condition(mode, "value", heat)>> IN
    Trigger(<<When(Condition(temp, "above", n1), <<>>, "and", x),
              When(Condition(temp, "below", n2), <<>>, "and", x)>>,
            <<Plain("say", t1)>>, hour, {})

\* A time with alternatives, one of a state no device offers; without a cooldown, and
\* with an announcement of its own beside the actions.
Timed ==
    Trigger(<<When(Plain("time", t1), <<Condition(lamp, "value", "false"),
                                        Condition(other, "below", n1)>>, "or", <<>>)>>,
            <<Plain("presence", anna), Condition(lamp, "value", "false")>>, zero, {"say"})

\* Made by hand: a value the device's input does not offer, a resident who is gone,
\* an exception for one of the conditions only, a condition that cancels it.
ByHand ==
    Trigger(<<When(Condition(lamp, "value", eco), <<>>, "and", <<>>),
              When(Condition(other, "value", n1), <<>>, "and", <<Condition(lamp, "value", "true")>>)>>,
            <<Plain("presence", gone), Condition(temp, "value", n2)>>, hour, Unshown)

MCTriggers == {Thresholds, Timed, ByHand}
TwoThresholds == {Thresholds}
===============================================================================
