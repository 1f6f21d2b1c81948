----------------------------- MODULE Preferences -----------------------------
(***************************************************************************)
(* Preferences on the ESP32 (preferences.cpp and .h): blobs in NVS under   *)
(* the number of the call of make_preference, with a checksum into which   *)
(* the preference's type goes.                                             *)
(***************************************************************************)
EXTENDS Integers, Sequences, FiniteSets

CONSTANTS
    Switch,        \* the switches: strings
    Image,         \* firmwares: strings
    Layout         \* in which order a firmware sets up its switches

\* A preference has a type of its own; no firmware sets a switch up twice.
ASSUME PreferencesAssumption ==
    /\ IsFiniteSet(Switch) /\ Switch \cap {"wifi", "ota", "none"} = {}
    /\ Switch \cap Image = {} /\ "none" \notin Image
    /\ Layout \in [Image -> Seq(Switch)]
    /\ \A img \in Image : \A i, j \in DOMAIN Layout[img] :
          Layout[img][i] = Layout[img][j] => i = j

VARIABLES
    nvs,      \* what is under each key
    prefs,    \* the key of each preference object, 0 if it is not made
    offset    \* current_offset_

NoBlob == [words |-> 0, crc |-> "none", data |-> "none"]
Keys == 1 .. Cardinality(Switch) + 1

\* A switch's bool; the WiFi settings, whose type is the time of compilation.
Words(o) == IF o = "wifi" THEN 25 ELSE 1
Type(o, image) == IF o = "wifi" THEN image ELSE o

\* Mutant: the checksum does not know the type.
load_valid_Untyped(blob, o, image) == blob.words = Words(o)
\* load_ and load_internal_: its length and its checksum are those of o.
load_valid(blob, o, image) == blob.words = Words(o) /\ blob.crc = Type(o, image)

load(o, image, key) ==
    IF key # 0 /\ load_valid(nvs[key], o, image) THEN nvs[key].data ELSE "none"

\* save_: what NVS is afterwards, unless it refuses the write.
Saved(o, image, v) ==
    [nvs EXCEPT ![prefs[o]] = [words |-> Words(o), crc |-> Type(o, image), data |-> v]]

make_preference(o) ==
    /\ prefs' = [prefs EXCEPT ![o] = offset]
    /\ offset' = offset + 1

\* ESPPreferences::begin, which erases all if it cannot open NVS.  The first key is
\* the boot counter's, in every firmware.
begin(broken) ==
    /\ nvs' = IF broken THEN [k \in Keys |-> NoBlob] ELSE nvs
    /\ prefs' = [o \in Switch \cup {"wifi"} |-> 0] /\ offset' = 1
=============================================================================
