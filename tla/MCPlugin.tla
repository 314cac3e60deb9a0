------------------------------ MODULE MCPlugin ------------------------------
(***************************************************************************)
(* An instance of Plugin for TLC.                                          *)
(***************************************************************************)
EXTENDS Plugin

CONSTANTS c1, c2

MCContainers == {c1, c2}

Point(name, tags, value, time) == [name |-> name, tags |-> tags, value |-> value, time |-> time]

NoTags == [t \in {} |-> ""]

Dims(c, task) == [container |-> c, task_id |-> task]

MCSanitized == [Rate |-> "rate", Task_id |-> "task_id"]

\* The application has two metrics of one name; one of them comes without a time, or is
\* NaN.  A record of an unknown container names none; its name and its tag are others
\* when sanitized.  One container is known to the agent, and one is not yet.
MCFeed ==
    {[kind |-> "node", id |-> NoId, dims |-> Dims(NoId, ""),
      datapoints |-> {Point("load", NoTags, "float", "good")}],
     [kind |-> "app", id |-> c1, dims |-> Dims(c1, "t1"),
      datapoints |-> {Point("rate", [tag |-> "v"], "float", "good"),
                      Point("rate", NoTags, "float", "bad")}],
     [kind |-> "app", id |-> c1, dims |-> Dims(c1, "t1"),
      datapoints |-> {Point("rate", NoTags, "NaN", "good")}],
     [kind |-> "app", id |-> NoId, dims |-> Dims(NoId, ""),
      datapoints |-> {Point("Rate", [Task_id |-> "v"], "float", "good")}],
     [kind |-> "container", id |-> c2, dims |-> Dims(c2, ""),
      datapoints |-> {Point("cpus", NoTags, "float", "good")}]}
=============================================================================
