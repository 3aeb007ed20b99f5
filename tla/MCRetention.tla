---------------------------- MODULE MCRetention ----------------------------
\* Instances of Retention: a month of two days and, as in the schedule, a
\* content period that is shorter than a month.
EXTENDS Retention

CONSTANTS acme, question, remark

Schedule == [c \in Class |-> CASE c = "execution-log-content" -> 1
                               [] c = "prompts-and-completions" -> 2
                               [] c = "execution-log-metadata" -> 2
                               [] OTHER -> 4]
=============================================================================
