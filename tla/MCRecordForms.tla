---------------------------- MODULE MCRecordForms ----------------------------
(* TLC instance of RecordForms: two pages or requests, one worker, so that a *)
(* request may have to wait for the other one.                              *)
EXTENDS RecordForms

First == CHOOSE v \in Values : v # Tidy

MCOriginals ==
    [alarm     |-> {[setup |-> First, enabled |-> "on"]},
     satellite |-> {[name |-> Blank, room |-> First, owner |-> CHOOSE u \in Users : TRUE,
                     followup |-> "on"]},
     group     |-> {[name |-> First, members |-> First]},
     car       |-> {[p \in PointsOf["car"] |-> IF p = "text" THEN First ELSE "on"]},
     ble_tag   |-> {[text |-> First, owner |-> CHOOSE u \in Users : TRUE]},
     setting   |-> {[value |-> First], [value |-> Ragged], [value |-> Nested]},
     links     |-> {[p \in PointsOf["links"] |-> Blank]}]
===============================================================================
