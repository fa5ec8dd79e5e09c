SPECIFICATION Spec
CONSTANTS
  c1 = c1
  c2 = c2
  c3 = c3
  Clients = {c1, c2}
  Users = {"user"}
  Targets = {"pending", "vault"}
  Global = Global
  Chosen = {"IS Admin", "Vault Creator"}
  Handled = {"IS Admin", "Vault Creator"}
  Releases <- MCReleases
  Edits = {{"admin"}}
  Copies = {1, 2}
  Ids = {1, 2}
  Permissions = {"admin", "view"}
  VaultPermissions = {"view"}
  Obsolete = {"old"}
SYMMETRY Symmetry
INVARIANTS TypeOK StartsSafely StartedComplete OneGrantEach
