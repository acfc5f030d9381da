----------------------------- MODULE ProxyCerts -----------------------------
(***************************************************************************)
(* The record proxy's certificates (main/proxy-certs.ts): a local CA that  *)
(* the user may have installed, and a short-lived leaf that the HTTPS      *)
(* listener serves, in four files of one directory.  A start of the proxy, *)
(* an export, an installation and a regeneration each ensure that they are *)
(* there; every file is read and written in a turn of its own, so that     *)
(* calls overlap, and the app can die between two writes.  A key is named  *)
(* by the call that generated it.                                          *)
(***************************************************************************)
EXTENDS Naturals, FiniteSets

CONSTANTS
  CertCalls,   \* bound: calls of ensureProxyCerts and regenerateProxyCa
  NoPem,       \* the file is not there
  TornPem      \* it is cut short

ASSUME CertsAssumption == {NoPem, TornPem} \cap CertCalls = {}

VARIABLES
  pems,        \* the four files
  cert,        \* [CertCalls -> ...] a call: where it is, and the PEMs it holds
  expired,     \* certificates, a CA's or a leaf's, that have had their time
  served,      \* [CertCalls -> ...] what a call came to
  entangled,   \* history: calls overlapped
  died,        \* history: the app died while a call was writing
  installed    \* history: the CA a user has exported or installed

certVars == <<pems, cert, expired, served, entangled, died, installed>>

PemFiles == {"caCrt", "caKey", "leafCrt", "leafKey"}
NoPems == [f \in PemFiles |-> NoPem]
NoCert == [step |-> "unused", holds |-> NoPems, regenerates |-> FALSE]

\* Certificates by the key they are for; a leaf's with the key that signed it.
Leaf(key, signer) == [key |-> key, signer |-> signer]

CertsInit ==
  /\ pems = NoPems
  /\ cert = [c \in CertCalls |-> NoCert]
  /\ served = [c \in CertCalls |-> NoPems]
  /\ expired = {} /\ installed = NoPem
  /\ entangled = FALSE /\ died = FALSE

Ensuring == {c \in CertCalls : cert[c].step \notin {"unused", "over"}}
At(c, step) == cert' = [cert EXCEPT ![c].step = step]
Holds(c, step, f, pem) == cert' = [cert EXCEPT ![c].step = step, ![c].holds[f] = pem]
Writes(c, step, f, pem) ==
  /\ pems' = [pems EXCEPT ![f] = pem]
  /\ Holds(c, step, f, pem)
  /\ UNCHANGED <<expired, served, entangled, died, installed>>

-----------------------------------------------------------------------------
EnsureProxyCerts(c) ==
  /\ cert[c].step = "unused"
  /\ \E wipes \in BOOLEAN :
       cert' = [cert EXCEPT ![c].step = IF wipes THEN "wipe" ELSE "read ca", ![c].regenerates = wipes]
  /\ entangled' = (entangled \/ Ensuring # {})
  /\ UNCHANGED <<pems, expired, served, died, installed>>

\* regenerateProxyCa: the user gives up the CA that may be installed.
RegenerateProxyCa(c) ==
  /\ cert[c].step = "wipe"
  /\ pems' = NoPems
  /\ installed' = NoPem
  /\ At(c, "read ca")
  /\ UNCHANGED <<expired, served, entangled, died>>

\* Variant: the CA is made anew with its leaf.
CaUsableWithItsLeaf(crt, key) ==
  /\ crt \notin {NoPem, TornPem} /\ <<"ca", crt>> \notin expired /\ key \notin {NoPem, TornPem}
  /\ pems["leafCrt"] \in {NoPem, TornPem} \/ <<"leaf", pems["leafCrt"].key>> \notin expired

CaUsable(crt, key) == crt \notin {NoPem, TornPem} /\ <<"ca", crt>> \notin expired /\ key \notin {NoPem, TornPem}

\* A CA that is missing, unreadable or past its time is made anew.
ReadCa(c) ==
  /\ cert[c].step = "read ca"
  /\ cert' = [cert EXCEPT ![c].holds = [NoPems EXCEPT !["caCrt"] = pems["caCrt"], !["caKey"] = pems["caKey"]],
                          ![c].step = IF CaUsable(pems["caCrt"], pems["caKey"]) THEN "read leaf" ELSE "ca crt"]
  /\ UNCHANGED <<pems, expired, served, entangled, died, installed>>

CreateCaCrt(c) == cert[c].step = "ca crt" /\ Writes(c, "ca key", "caCrt", c)
CreateCaKey(c) == cert[c].step = "ca key" /\ Writes(c, "leaf crt", "caKey", c)

\* Signed by the CA, not about to expire; whether its key is the one in the
\* other file is not looked at.
LeafUsable(leaf, key, ca) ==
  leaf \notin {NoPem, TornPem} /\ key # NoPem /\ leaf.signer = ca /\ <<"leaf", leaf.key>> \notin expired

ReadLeaf(c) ==
  /\ cert[c].step = "read leaf"
  /\ cert' = [cert EXCEPT ![c].holds["leafCrt"] = pems["leafCrt"], ![c].holds["leafKey"] = pems["leafKey"],
                          ![c].step = IF LeafUsable(pems["leafCrt"], pems["leafKey"], cert[c].holds["caCrt"])
                                        THEN "done" ELSE "leaf crt"]
  /\ UNCHANGED <<pems, expired, served, entangled, died, installed>>

\* The leaf is signed with the key that is held.
CreateLeafCrt(c) ==
  cert[c].step = "leaf crt" /\ Writes(c, "leaf key", "leafCrt", Leaf(c, cert[c].holds["caKey"]))
CreateLeafKey(c) == cert[c].step = "leaf key" /\ Writes(c, "done", "leafKey", c)

\* The listener serves the leaf, or the CA goes to the user.
ProxyCertsReady(c) ==
  /\ cert[c].step = "done"
  /\ served' = [served EXCEPT ![c] = cert[c].holds]
  /\ installed' \in {installed, cert[c].holds["caCrt"]}
  /\ At(c, "over")
  /\ UNCHANGED <<pems, expired, entangled, died>>

\* The app dies; what it was writing keeps its old content, or is cut short.
CertsCrash ==
  /\ Ensuring # {}
  /\ \E c \in Ensuring :
       pems' \in {pems} \cup {[pems EXCEPT ![f] = TornPem] : f \in
                   {g \in PemFiles : <<cert[c].step, g>> \in {<<"ca crt", "caCrt">>, <<"ca key", "caKey">>,
                                                            <<"leaf crt", "leafCrt">>, <<"leaf key", "leafKey">>}}}
  /\ cert' = [c \in CertCalls |-> IF c \in Ensuring THEN [cert[c] EXCEPT !.step = "over"] ELSE cert[c]]
  /\ died' = (died \/ \E c \in Ensuring : cert[c].step \in {"ca crt", "ca key", "leaf crt", "leaf key"})
  /\ UNCHANGED <<expired, served, entangled, installed>>

\* Years pass: the leaf, the CA or both have had their time.
CertsExpire ==
  /\ Ensuring = {}
  /\ pems["leafCrt"] \notin {NoPem, TornPem}
  /\ \E ks \in (SUBSET {<<"leaf", pems["leafCrt"].key>>, <<"ca", pems["caCrt"]>>}) \ {{}} : expired' = expired \cup ks
  /\ expired' # expired
  /\ UNCHANGED <<pems, cert, served, entangled, died, installed>>

CertsNext ==
  \/ \E c \in CertCalls :
       \/ EnsureProxyCerts(c) \/ RegenerateProxyCa(c) \/ ReadCa(c) \/ CreateCaCrt(c) \/ CreateCaKey(c)
       \/ ReadLeaf(c) \/ CreateLeafCrt(c) \/ CreateLeafKey(c) \/ ProxyCertsReady(c)
  \/ CertsCrash \/ CertsExpire

CertsSpec == CertsInit /\ [][CertsNext]_certVars

-----------------------------------------------------------------------------
Usable(bundle) ==
  /\ bundle["leafCrt"].key = bundle["leafKey"]
  /\ bundle["leafCrt"].signer = bundle["caCrt"]

\* "Ensure a usable CA + leaf exist under `dir`" (proxy-certs.ts:209): a client
\* that trusts the CA of a call that came to an end alone accepts its leaf, and
\* the leaf's key is the one the listener is given.
CertsAreUsable ==
  ~entangled => \A c \in CertCalls : served[c] # NoPems => Usable(served[c])

\* They are, unless the app has died between the writes of a pair; and then "The
\* CA is kept stable across leaf rotations" (210): as long as the CA a user has
\* installed has not had its time, no call replaces it.
CertsStandUp ==
  ~died =>
    /\ CertsAreUsable
    /\ ~entangled /\ installed # NoPem /\ <<"ca", installed>> \notin expired
         => pems["caCrt"] = installed
=============================================================================
