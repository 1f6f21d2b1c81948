------------------------------- MODULE MCApi -------------------------------
\* One client that may say one of several sets of words, or two that come and go and say nothing.
EXTENDS Api_Tasks

CONSTANTS one, two

MCPlatforms == << <<"uptime">>, <<"port">>, <<"beep">> >>
Alone(words) == [c \in {one} |-> words]
MCWords == {Alone({"connect", "list"}),
            Alone({"connect", "states", "on"}),
            Alone({"connect", "bye", "off", "logs"}),
            Alone({"hello", "wrong", "goodbye", "info"}),
            Alone({"junk", "other", "ping"}),
            [c \in {one, two} |-> {}]}
=============================================================================
