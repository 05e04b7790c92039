------------------------------ MODULE Prepare ------------------------------
(***************************************************************************)
(* The decisions of Builder.Prepare: the image type, what follows from it, *)
(* the qemu binary and whether it is needed, and the errors, which are     *)
(* collected and only end it after the last of them.  A raw configuration  *)
(* has "" and << >> where the user gave nothing; url holds the words of    *)
(* the first URL that are looked for, if there is a URL.                   *)
(***************************************************************************)
EXTENDS Naturals, Sequences, ImageTypes

knownTypes ==
    [raspberrypi |-> << "/boot", "/" >>, beaglebone |-> << "/" >>,
     kali |-> << "/root", "/" >>, ubuntu |-> << "/boot/firmware", "/" >>,
     armbian |-> << "/" >>]

knownArgs(type) == IF type = "beaglebone" THEN << "-cpu", "cortex-a8" >> ELSE << >>

knownQemu ==
    [arm |-> "qemu-arm-static", armbe |-> "qemu-armeb-static",
     arm64 |-> "qemu-aarch64-static", arm64be |-> "qemu-aarch64_be-static"]

Known(type) == type \in DOMAIN knownTypes

autoDetectType(raw) ==
    IF raw.url = << >> THEN Unknown ELSE GuessImageType(Head(raw.url))

\* The URL is asked only when the user names no type; a type that is not known
\* is an error, and then no type.
ImageType(raw) ==
    CASE raw.type = "" -> autoDetectType(raw)
      [] Known(raw.type) -> raw.type
      [] OTHER -> Unknown

OrElse(given, default) == IF given = << >> THEN default ELSE given

\* What the image type stands for is used only if there is one.
ImageMounts(raw) ==
    IF ImageType(raw) = Unknown THEN raw.mounts
    ELSE OrElse(raw.mounts, knownTypes[ImageType(raw)])

QemuArgs(raw) ==
    IF ImageType(raw) = Unknown THEN raw.args
    ELSE OrElse(raw.args, knownArgs(ImageType(raw)))

Valid(arch) == arch \in {"arm", "armbe", "arm64", "arm64be"}
IsNative(arch, host) == arch = host.arch

ImageArch(raw) == IF Valid(raw.arch) THEN raw.arch ELSE "arm"

QemuBinary(raw) ==
    IF raw.binary = "" THEN knownQemu[ImageArch(raw)] ELSE raw.binary

\* Arguments need qemu, but those of an image of no type do not count.
QemuRequired(raw) ==
    \/ raw.required
    \/ ImageType(raw) # Unknown /\ QemuArgs(raw) # << >>
    \/ QemuBinary(raw) # knownQemu[ImageArch(raw)]

\* The errors, but for those about the binary.
ConfigErrors(raw) ==
    {e \in {"iso", "image_type", "mounts", "image_arch"} :
        \/ e = "iso" /\ raw.url = << >>
        \/ e = "image_type" /\ raw.type # "" /\ ~Known(raw.type)
        \/ e = "mounts" /\ ImageMounts(raw) = << >>
        \/ e = "image_arch" /\ raw.arch # "" /\ ~Valid(raw.arch)}

\* The steps that install qemu are in the list.
InstallsQemu(raw, host) == ~IsNative(ImageArch(raw), host) \/ QemuRequired(raw)

\* GetEmbededQemu: the binaries are for amd64 alone.
Embeds(host, binary) == host.arch = "amd64" /\ binary \in host.embedded

\* Where the binary comes from: the PATH, the embedded ones, or nowhere.
QemuLookup(raw, host) ==
    CASE QemuBinary(raw) \in host.path -> "path"
      [] /\ QemuBinary(raw) \notin host.path /\ ~raw.disableEmbedded
         /\ Embeds(host, QemuBinary(raw)) -> "cache"
      [] OTHER -> "nothing"
=============================================================================
