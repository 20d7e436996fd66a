------------------------------- MODULE MCLabs -------------------------------
(***************************************************************************)
(* The instance of Labs: every driver, two or three processes.             *)
(***************************************************************************)
EXTENDS Labs

MCDrivers == Described \cup DOMAIN Life!Programs

\* No driver of ModuleLife has two of these.
MCNeverTogether == {"user", "timer", "tasklet", "thread", "work1"}
MCContextSets == {{"module"}, {"isr"}, {"work2"}, MCNeverTogether}

\* Nor do two of a set wait under the same driver.
MCWaiterSets == {{"r1", "work1", "echo"}, {"r2", "work2"}, {"w1", "isr", "module"}}
=============================================================================
