------------------------------ MODULE XorCrypto ------------------------------
(***************************************************************************)
(* Bytes and the operations aont-sgx performs on them, as far as the        *)
(* outcome of a round trip depends on them.  A byte string is the set of    *)
(* the independent terms it is the XOR of, so that XOR is symmetric         *)
(* difference.  AES-256 in counter mode XORs a key stream that depends only *)
(* on key and IV; the IV is the same everywhere but in write_file_aes.  A   *)
(* hash is a fresh term for every argument.                                 *)
(***************************************************************************)
EXTENDS Integers, FiniteSets, FiniteSetsExt, Functions

Xor(a, b) == SymDiff(a, b)

Stream(key) == { <<"stream", key>> }

\* One operation both ways: CTR decryption is CTR encryption.
AesCtr(key, bytes) == Xor(bytes, Stream(key))

Sha(bytes) == { <<"sha", bytes>> }

\* The XOR of all values of a function: the terms that an odd number of them
\* have.
XorAll(f) ==
  { x \in UNION { f[i] : i \in DOMAIN f } :
      Cardinality({ i \in DOMAIN f : x \in f[i] }) % 2 = 1 }

=============================================================================
