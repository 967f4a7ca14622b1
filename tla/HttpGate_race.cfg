SPECIFICATION Spec
CONSTANTS
  Apps = {a1, a2}
  Desktop = desktop
  Statuses = {200, 404}
INVARIANTS
  SocketExclusive
