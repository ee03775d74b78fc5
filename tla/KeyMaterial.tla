---------------------------- MODULE KeyMaterial ----------------------------
(***************************************************************************)
(* Loading key files and assigning the keys to the four envelope roles     *)
(* (src/keys.rs), while whoever administers the files may replace them     *)
(* between any two reads.                                                  *)
(*                                                                         *)
(* The contents of a file are what the parsers find in it: whether it is   *)
(* PEM text, whether that starts at the first byte, and a value per        *)
(* container: <<>> when there is none, <<"malformed">> when it does not    *)
(* decode, else its key (for PKCS#8, the key and its password).  PEM,      *)
(* PKCS#8, SPKI and X.509 parsing is external.                             *)
(***************************************************************************)
EXTENDS Integers, Sequences

CONSTANTS
    Private,        \* the paths holding a local private key
    Peer,           \* the paths holding a remote public key
    PrivateFiles,   \* contents a private-key path may hold
    PeerFiles,      \* contents a public-key path may hold
    Passwords,      \* passwords callers pass
    MaxReplaced     \* bound: files replaced

ASSUME ReplacedBound == MaxReplaced \in Nat

Absent == [pem |-> FALSE, leading |-> FALSE, absent |-> TRUE]
LocalRoles == {"local_signing", "local_decryption"}
RemoteRoles == {"remote_verification", "remote_encryption"}

VARIABLES
    files,      \* the private-key files and the peer-key files, path -> contents
    replaced,   \* files replaced so far
    call,       \* the call in progress, with its arguments and what it has read
    held,       \* what its two files have held since the call began
    slots,      \* role -> the key the caller has loaded for it, <<>> before
    result      \* what the last call returned

kvars == <<files, replaced, call, held, slots, result>>

-----------------------------------------------------------------------------
(* Loaders. *)

KeyErr(e) == [err |-> e]
LocalPrivate == KeyErr("KeyMaterial.LocalPrivate")
PeerPublic == KeyErr("KeyMaterial.PeerPublic")

is_pem(input) == input.pem /\ ~input.leading

from_encrypted_der(input, password) ==
    IF ~input.pem /\ input.pkcs8 # <<>> /\ input.pkcs8 # <<"malformed">> /\ input.pkcs8[2] = password
      THEN [err |-> "none", key |-> input.pkcs8[1]] ELSE LocalPrivate

from_encrypted_pem(input, password) ==
    IF input.pem THEN from_encrypted_der([input EXCEPT !.pem = FALSE], password) ELSE LocalPrivate

\* from_spki_der and from_certificate_der.
from_container(value, source) ==
    IF value \in {<<>>, <<"malformed">>} THEN PeerPublic
    ELSE [err |-> "none", key |-> value[1], source |-> source]

from_pem(input) ==
    IF ~input.pem THEN PeerPublic
    ELSE IF input.spki # <<>> THEN from_container(input.spki, "Spki")
    ELSE from_container(input.certificate, "Certificate")

from_der(input) ==
    IF input.pem THEN PeerPublic
    ELSE IF from_container(input.spki, "Spki").err = "none" THEN from_container(input.spki, "Spki")
    ELSE from_container(input.certificate, "Certificate")

load_private(input, password) ==
    IF is_pem(input) THEN from_encrypted_pem(input, password) ELSE from_encrypted_der(input, password)

load_peer(input) == IF is_pem(input) THEN from_pem(input) ELSE from_der(input)

-----------------------------------------------------------------------------
(* Roles. *)

private_roles_overlap(left, right) == left.key = right.key

\* Plausible slip: the containers are compared along with the keys.
public_roles_overlap_sources(left, right) == left = right

public_roles_overlap(left, right) == left.key = right.key

new(local_signing, local_decryption, remote_verification, remote_encryption) ==
    IF \/ private_roles_overlap(local_signing, local_decryption)
       \/ public_roles_overlap(remote_verification, remote_encryption)
      THEN KeyErr("Configuration.key_roles")
    ELSE [err |-> "none",
          local_signing |-> local_signing.key, local_decryption |-> local_decryption.key,
          remote_verification |-> remote_verification.key, remote_encryption |-> remote_encryption.key,
          shared_roles |-> FALSE]

shared(local, remote) ==
    [err |-> "none", local_signing |-> local.key, local_decryption |-> local.key,
     remote_verification |-> remote.key, remote_encryption |-> remote.key, shared_roles |-> TRUE]

-----------------------------------------------------------------------------

Idle == call.pc \in {"idle", "returned"}

KeysInit ==
    /\ files \in [Private -> PrivateFiles \cup {Absent}] \X [Peer -> PeerFiles \cup {Absent}]
    /\ replaced = 0
    /\ call = [pc |-> "idle"]
    /\ held = <<{}, {}>>
    /\ slots = [role \in LocalRoles \cup RemoteRoles |-> <<>>]
    /\ result = KeyErr("pending")

\* The administrator replaces, creates or removes a file.
Replace(side, path, contents) ==
    /\ replaced < MaxReplaced
    /\ files' = [files EXCEPT ![side][path] = contents]
    /\ replaced' = replaced + 1
    /\ held' = IF ~Idle /\ path = call.paths[side]
                 THEN [held EXCEPT ![side] = @ \cup {contents}] ELSE held
    /\ UNCHANGED <<call, slots, result>>

\* A call without an intermediate step.
Returns(r) ==
    /\ Idle /\ call' = [pc |-> "idle"] /\ result' = r
    /\ UNCHANGED <<files, replaced, held>>

Keep(role, r) == slots' = [slots EXCEPT ![role] = IF r.err = "none" THEN <<r>> ELSE <<>>]

\* PrivateKey::from_encrypted_file and PublicKey::from_file, for a role of the caller's.
LoadLocal(role, path, password) ==
    LET input == files[1][path]
        r == IF input = Absent THEN KeyErr("Io.read private key") ELSE load_private(input, password)
    IN  slots[role] = <<>> /\ Returns(r) /\ Keep(role, r)

LoadRemote(role, path) ==
    LET input == files[2][path]
        r == IF input = Absent THEN KeyErr("Io.read peer key") ELSE load_peer(input)
    IN  slots[role] = <<>> /\ Returns(r) /\ Keep(role, r)

\* KeyMaterial::new consumes the four loaded keys.
New ==
    /\ \A role \in DOMAIN slots : slots[role] # <<>>
    /\ Returns(new(slots["local_signing"][1], slots["local_decryption"][1],
                   slots["remote_verification"][1], slots["remote_encryption"][1]))
    /\ slots' = [role \in DOMAIN slots |-> <<>>]

\* KeyMaterial::shared consumes two of them.
Shared ==
    /\ slots["local_signing"] # <<>> /\ slots["remote_verification"] # <<>>
    /\ Returns(shared(slots["local_signing"][1], slots["remote_verification"][1]))
    /\ slots' = [slots EXCEPT !["local_signing"] = <<>>, !["remote_verification"] = <<>>]

shared_of(local, remote) ==
    IF local.err # "none" THEN local ELSE IF remote.err # "none" THEN remote ELSE shared(local, remote)

\* KeyMaterial::shared_from_pem and ::shared_from_der, on bytes the caller read itself.
SharedFromMemory(private, password, peer) ==
    /\ private # Absent /\ peer # Absent
    /\ \/ Returns(shared_of(from_encrypted_pem(private, password), from_pem(peer)))
       \/ Returns(shared_of(from_encrypted_der(private, password), from_der(peer)))
    /\ UNCHANGED slots

\* KeyMaterial::shared_from_files: both reads, then both parsers.
SharedFromFiles(private_path, password, peer_path) ==
    /\ Idle
    /\ call' = [pc |-> "read private key", paths |-> <<private_path, peer_path>>,
                password |-> password, private |-> Absent, peer |-> Absent]
    /\ held' = <<{files[1][private_path]}, {files[2][peer_path]}>>
    /\ result' = KeyErr("pending")
    /\ UNCHANGED <<files, replaced, slots>>

Return(r) == call' = [call EXCEPT !.pc = "returned"] /\ result' = r

\* Plausible slip: the private key is parsed before the peer key is read.
ReadPrivateEager ==
    /\ call.pc = "read private key"
    /\ LET input == files[1][call.paths[1]]
       IN  IF input = Absent THEN Return(KeyErr("Io.read private key"))
           ELSE IF load_private(input, call.password).err # "none" THEN Return(LocalPrivate)
           ELSE call' = [call EXCEPT !.pc = "read peer key", !.private = input] /\ UNCHANGED result
    /\ UNCHANGED <<files, replaced, held, slots>>

ReadPrivate ==
    /\ call.pc = "read private key"
    /\ LET input == files[1][call.paths[1]]
       IN  IF input = Absent THEN Return(KeyErr("Io.read private key"))
           ELSE call' = [call EXCEPT !.pc = "read peer key", !.private = input] /\ UNCHANGED result
    /\ UNCHANGED <<files, replaced, held, slots>>

ReadPeer ==
    /\ call.pc = "read peer key"
    /\ LET input == files[2][call.paths[2]]
       IN  IF input = Absent THEN Return(KeyErr("Io.read peer key"))
           ELSE call' = [call EXCEPT !.pc = "parse", !.peer = input] /\ UNCHANGED result
    /\ UNCHANGED <<files, replaced, held, slots>>

ParseBoth ==
    /\ call.pc = "parse"
    /\ Return(shared_of(load_private(call.private, call.password), load_peer(call.peer)))
    /\ UNCHANGED <<files, replaced, held, slots>>

KeysNext ==
    \/ \E path \in Private, contents \in PrivateFiles \cup {Absent} : Replace(1, path, contents)
    \/ \E path \in Peer, contents \in PeerFiles \cup {Absent} : Replace(2, path, contents)
    \/ \E role \in LocalRoles, path \in Private, password \in Passwords : LoadLocal(role, path, password)
    \/ \E role \in RemoteRoles, path \in Peer : LoadRemote(role, path)
    \/ New \/ Shared
    \/ \E private \in Private, password \in Passwords, peer \in Peer :
          SharedFromMemory(files[1][private], password, files[2][peer])
    \/ \E private \in Private, password \in Passwords, peer \in Peer :
          SharedFromFiles(private, password, peer)
    \/ ReadPrivate \/ ReadPeer \/ ParseBoth

KeysSpec == KeysInit /\ [][KeysNext]_kvars

-----------------------------------------------------------------------------
(* Properties. *)

\* Key material is one of two kinds.  From KeyMaterial::new, no key serves two roles of one
\* side, whatever containers the keys came in and however the files changed between the
\* loads; from the shared constructors both sides reuse their key and the material says so.
RolesAreAsDeclared ==
    "shared_roles" \in DOMAIN result =>
        /\ result.shared_roles <=> result.local_signing = result.local_decryption
        /\ result.shared_roles <=> result.remote_verification = result.remote_encryption

\* What shared_from_files returns is explained by what its files held while it ran.  Both
\* files are read before either is parsed, so that an unusable file is reported only when
\* the other one could be read, and the keys of one result were each on disk.
ResultIsExplainedByTheFiles ==
    LET opened(contents) == contents \ {Absent}
        local(c) == load_private(c, call.password)
    IN  call.pc = "returned" =>
          CASE result.err = "Io.read private key" -> Absent \in held[1]
            [] result.err = "Io.read peer key" -> opened(held[1]) # {} /\ Absent \in held[2]
            [] result = LocalPrivate ->
                  opened(held[2]) # {} /\ \E c \in opened(held[1]) : local(c) = LocalPrivate
            [] result = PeerPublic ->
                  /\ \E c \in opened(held[1]) : local(c).err = "none"
                  /\ \E c \in opened(held[2]) : load_peer(c) = PeerPublic
            [] OTHER ->
                  \E c \in opened(held[1]), d \in opened(held[2]) :
                      /\ local(c).err = "none" /\ load_peer(d).err = "none"
                      /\ result = shared(local(c), load_peer(d))
=============================================================================
