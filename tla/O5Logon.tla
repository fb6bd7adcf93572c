------------------------------- MODULE O5Logon -------------------------------
(***************************************************************************)
(* The answer of a password logon to the server's challenge                *)
(* (ttioauth_o5logon.go).  A hash or a cipher is a term: a key stands for  *)
(* what it was derived from, and a text under a key can be read only with  *)
(* that key.  The lengths, which decide whether the fixed buffers hold     *)
(* what is put in them, are computed.                                      *)
(***************************************************************************)
EXTENDS Integers

maxPasswordBytes == 1024
passwordBufferLength == 2112
BlockSize == 16
confounderLen == 16
pkLength == 64

SHA1Verifiers == {"ZtvtSh1", "ZtvtSSH1"}
MD5Verifiers == {"ZtvtMd5", "ZtvtSmd5"}

\* The verifier types setVerifierType accepts; no verifier is ever constructed
\* for ZtvtOrcl7.
VerifierTypes == SHA1Verifiers \cup MD5Verifiers \cup {"ZtvtSha512", "ZtvtOrcl7"}

\* _applyPKCS5Padding: at least one byte, and a whole block when none is needed.
applyPKCS5Padding(length) == length + (BlockSize - (length % BlockSize))

\* removePKCS5Padding of a text whose last byte is padding.
removePKCS5Padding(length, padding) == length - padding

\* sessKeyStr: only the SHA-1 verifiers of a server without O5L_NP pad the keys.
padsSessionKey(verifier, o5lnp) == verifier \in SHA1Verifiers /\ ~o5lnp

\* decryptAES of the server's key, of sk nibbles, padding bytes of it padding.
kaLength(verifier, o5lnp, sk, padding) ==
  IF padsSessionKey(verifier, o5lnp) THEN removePKCS5Padding(sk \div 2, padding) ELSE sk \div 2

\* generateKb: as many random bytes, encrypted as the server's were.
encryptedKbLength(verifier, o5lnp, sk, padding) ==
  LET kb == kaLength(verifier, o5lnp, sk, padding)
  IN  IF padsSessionKey(verifier, o5lnp) THEN applyPKCS5Padding(kb) ELSE kb

\* generateSpeedKey: the confounder and the PBKDF2 hash of the password.
encryptedPkLength == confounderLen + pkLength

\* _encryptPassword: the confounder and the password, padded.
encryptedPasswordLength(password) == applyPKCS5Padding(confounderLen + password)

\* validateNibbleBufferLength: two nibbles a byte.
validateNibbleBufferLength(length, nibbles) == nibbles >= length * 2

\* validateKeySizeForOAUTH; the server always sent AUTH_VFR_DATA.
validateKeySizeForOAUTH(sk) == sk \in {64, 96}

\* generateOAuthResponse, in the order in which it gives up.
generateOAuthResponse(verifier, o5lnp, sk, padding, password) ==
  IF verifier = "ZtvtOrcl7" THEN "verifier"
  ELSE IF ~validateNibbleBufferLength(encryptedKbLength(verifier, o5lnp, sk, padding), sk)
    THEN "key buffer"
  ELSE IF verifier = "ZtvtSha512"
          /\ ~validateNibbleBufferLength(encryptedPkLength, passwordBufferLength)
    THEN "speedy key buffer"
  ELSE IF ~validateNibbleBufferLength(encryptedPasswordLength(password), passwordBufferLength)
    THEN "password buffer"
  ELSE "ok"

\* _buildO5LogonKey.  ka can be read with the verifier it was encrypted for; with
\* another the result is some other key.
buildO5LogonKey(secret, ka) == <<secret, ka>>
NoKey == <<>>

\* Mutant: the identity of the server is taken on trust.
ValidateServerIdentityNever(key, response) == "ok"

\* ValidateServerIdentity: only a server with the same key can have written the
\* text.  A logon that derived no key decrypts nothing, and taking the text from
\* the 16th byte of nothing panics.
ValidateServerIdentity(key, response) ==
  IF key = NoKey THEN "panic" ELSE IF key = response THEN "ok" ELSE "error"
=============================================================================
