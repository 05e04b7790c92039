----------------------------- MODULE ImageTypes -----------------------------
(***************************************************************************)
(* utils.GuessImageType and hasPotential.  A name is represented by what   *)
(* they look for in it: the words it contains and its suffix.              *)
(***************************************************************************)
EXTENDS Places

Unknown == ""

\* The words looked for, in order, and what each one stands for.
TypeOfWord ==
    << <<"raspbian", "raspberrypi">>, <<"raspios", "raspberrypi">>,
       <<"bone", "beaglebone">>, <<"kali", "kali">>, <<"ubuntu", "ubuntu">>,
       <<"Armbian", "armbian">> >>

GuessImageType(words) ==
    LET hits == SelectSeq(TypeOfWord, LAMBDA w : w[1] \in words) IN
    IF hits = << >> THEN Unknown ELSE Head(hits)[2]

\* "image" is the default output name.
HasPotential(f) ==
    \/ f.name = "image"
    \/ GuessImageType(f.words) # Unknown
    \/ f.suffix \in {".img", ".iso", ".xz"}

\* GetImageFilesInCurrentDir: the names of the files of both directories, those
\* of ./output-arm-image/ without it.
PotentialNames(here, output) ==
    LET files == here \o output
        candidates == At(files, {i \in DOMAIN files : HasPotential(files[i])}) IN
    [k \in DOMAIN candidates |-> candidates[k].name]
=============================================================================
