------------------------------ MODULE UserStore -----------------------------
(***************************************************************************)
(* The users of the settings and the check of a username and password      *)
(* (src/auth/user_store.rs).  Names and passwords are sequences of bytes.  *)
(***************************************************************************)
EXTENDS Integers, Sequences

MAX_CREDENTIAL_LEN == 255
BLOCK_LEN == MAX_CREDENTIAL_LEN + 1

ZeroBlock == [i \in 1 .. BLOCK_LEN |-> 0]

\* to_block would return None.
HasNoBlock(value) == Len(value) \notin 1 .. MAX_CREDENTIAL_LEN

\* Mutant: the padding is all that tells lengths apart.
to_block_unprefixed(value) ==
    [i \in 1 .. BLOCK_LEN |-> IF i <= Len(value) THEN value[i] ELSE 0]

\* The length byte, the value and zeros.
to_block(value) ==
    [i \in 1 .. BLOCK_LEN |->
        IF i = 1 THEN Len(value) ELSE IF i <= Len(value) + 1 THEN value[i - 1] ELSE 0]

\* What is wrong with credential i of the list, the earlier ones being right.
CredentialError(credentials, i) ==
    IF HasNoBlock(credentials[i].username) THEN "invalid_username"
    ELSE IF HasNoBlock(credentials[i].password) THEN "invalid_password"
    ELSE IF \E j \in 1 .. i - 1 : credentials[j].username = credentials[i].username
    THEN "duplicate_username"
    ELSE "none"

\* UserStore::new: the first error, or the stored users.
user_store_new(credentials) ==
    LET wrong == {i \in DOMAIN credentials : CredentialError(credentials, i) # "none"}
        first == CHOOSE i \in wrong : \A j \in wrong : i <= j
    IN  IF credentials = <<>> THEN [error |-> "no_users"]
        ELSE IF wrong # {} THEN [error |-> CredentialError(credentials, first)]
        ELSE [users |-> [i \in DOMAIN credentials |->
                 [name |-> credentials[i].username,
                  username |-> to_block(credentials[i].username),
                  password |-> to_block(credentials[i].password)]]]

\* Some(name) of the last user whose blocks both match, as <<name>>; <<>> for
\* None.  Input that has no block is compared as zeros.
verify(users, username, password) ==
    LET block(value) == IF HasNoBlock(value) THEN ZeroBlock ELSE to_block(value)
        matched == {i \in DOMAIN users : /\ users[i].username = block(username)
                                         /\ users[i].password = block(password)}
    IN  IF matched = {} THEN <<>>
        ELSE <<users[CHOOSE i \in matched : \A j \in matched : j <= i].name>>
=============================================================================
