SPECIFICATION Spec
CONSTANTS
  service = service
  gateway = gateway
  RequestWords = {"request"}
  Writers = {service, gateway}
  Program <- MCProgram
  Readers = {monitor}
  MaxAttempts = 2
INVARIANTS TornOnlyAfterDisturbance
