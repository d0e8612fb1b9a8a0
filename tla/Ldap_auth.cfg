SPECIFICATION Spec
CONSTANTS
  Dns = {"cn=ann,cn=users", "cn=ann,cn=guests"}
  Uids = {"ann"}
  Passwords = {"old", "new"}
  MaxChanges = 2
INVARIANTS TypeOK GrantedAsHeld EntitledGranted
