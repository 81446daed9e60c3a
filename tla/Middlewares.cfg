SPECIFICATION FairMwSpec
CONSTANTS
  Containers = {c1, c2}
  OwnNames = {o1}
  Kinds = {"mongodb", "kvrocks", "nats", "minio", "rabbitmq", "elasticsearch", "mariadb", "mysql"}
  Pwds = {1, 2}
  MaxGen = 2
  MaxErrors = 1
  MaxUpsets = 1
CHECK_DEADLOCK FALSE
INVARIANTS
  DoneMeansDone
  AdminKept
PROPERTIES
  DeletionsReturn
