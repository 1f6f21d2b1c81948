---------------------------- MODULE MCRestarts ----------------------------
\* Two outlets that exclude each other, which two firmwares set up in different orders, one
\* with one of them, and two without outlets.
EXTENDS Restarts

MCLayout == [i \in Image |-> CASE i = "old" -> <<"a", "b">> [] i = "new" -> <<"b", "a">>
                                        [] i = "single" -> <<"a">> [] OTHER -> <<>>]
MCRestoreMode == [s \in Switch |-> IF s = "a" THEN "RESTORE_DEFAULT_ON" ELSE "RESTORE_INVERTED_DEFAULT_OFF"]
MCGroup == [s \in Switch |-> Switch]
Play(images, may) == [images |-> images, may |-> may]
MCPlays == {Play({"old"}, {"turns", "refused"}),
            Play({"single"}, {"turns", "refused", "uncounted", "broken", "portal"}),
            Play({"old", "new"}, {"turns", "ota"}), Play({"bare", "plain"}, {"ota", "page"})}
=============================================================================
